---------------------------- MODULE Spec2Model ----------------------------
(***************************************************************************)
(* A model of the two session-bridge components of the repository:         *)
(*                                                                         *)
(*  - DriveService (src/lib/drive/driveService.ts): the stored gapi token, *)
(*    the isRefreshingToken latch, getAccessToken and the callDriveApi     *)
(*    circuit breaker.  Specification SpecDrive.                           *)
(*  - GeminiLiveService and the exported connect / disconnect              *)
(*    (src/lib/ai/geminiLive.ts): the live audio session, its acquisition  *)
(*    sequence, its cleanup and the channel callbacks.  Specification      *)
(*    SpecLive.                                                            *)
(*                                                                         *)
(* JavaScript runs one job at a time.  An action of the model is one job:  *)
(* a call from the UI, a timer, a browser or network event, or the         *)
(* continuation of an await.  Continuations that the engine runs as        *)
(* microtasks are taken before any other job (see MicroPending).           *)
(***************************************************************************)
EXTENDS Integers, FiniteSets, Sequences, TLC

(***************************************************************************)
(* Bounds of the model.                                                    *)
(***************************************************************************)
NCallers == 2
MaxInst == 2
MaxTasks == 2
MaxSources == 2
MaxClock == 3
MaxFrames == 3
MaxDuration == 2
MaxBlocks == 2
MaxConnects == 2
MaxCleanups == 3
SampleScale == 64

(***************************************************************************)
(* Program constants.                                                      *)
(***************************************************************************)
MAX_RETRIES == 1

VARIABLES
    \* ---- DriveService ----
    gapiInited,         \* gapiInited and gisInited (set by one initializeDrive)
    initPromise,        \* "null" | "pending" | "resolved"
    tokenClient,        \* TRUE when initTokenClient has run
    isRefreshingToken,  \* the single-flight latch
    token,              \* window.gapi.client.getToken(): 0 = none, n > 0 = a token
    prompts,            \* requestAccessToken calls not yet answered
    callbackOwner,      \* the caller whose resolve/reject tokenClient.callback holds
    refreshes,          \* number of requestAccessToken calls made so far
    refreshOutcome,     \* per refresh: "pending" | "ok" | "error" | "closed"
    refreshToken,       \* per refresh: the token it stored (0 if none)
    call,               \* per caller: the state of its top-level call
    authErrorEvents,    \* 'google-auth-error' events dispatched on window
    \* ---- geminiLive ----
    svc,                \* per GeminiLiveService instance: its fields and objects
    activeGlobalService,\* 0 = null, else the instance
    globalConnecting,   \* the module's start latch
    connectAwaits,      \* the instance whose connect() the exported connect awaits
    tasks,              \* cleanup() invocations that have not returned to their caller
    streamingAtStart,   \* history: the instances Streaming when the last exported
                        \* connect passed its latch
    stopDuringStart,    \* history: a disconnect was called during that connect
    \* ---- playback of one streaming GeminiLiveService ----
    playing,            \* isActive and outputAudioContext is set
    nextStartTime,      \* the playback cursor
    currentTime,        \* outputAudioContext.currentTime
    pendingFrame,       \* the frame whose onmessage awaits decodeAudioData
    scheduled,          \* this.sources: the sources started and not yet ended
    speaking,           \* the last value given to onModelSpeakingChange
    framesSeen,         \* number of messages received
    lastScheduled,      \* history: the frame scheduled last
    interruptedSince,   \* history: stopAllAudio ran since that frame was scheduled
    currentInputTranscription,  \* the user's partial text (a sequence of characters)
    currentOutputTranscription, \* the model's partial text
    turns,              \* the calls of onTurnComplete so far: <<userText, aiText>>
    resources,               \* the fields of the instance that are set (not null)
    errorCalls,         \* number of calls of config.onError
    returned,           \* what disconnect() resolved with: "none" before it has
    captured,           \* microphone blocks given to onaudioprocess so far
    pendingSend,        \* the block whose sessionPromise.then callback is queued
    sent,               \* the blocks given to sendRealtimeInput, in order
    \* ---- one GeminiLiveService used through its own connect/disconnect ----
    self,               \* the instance's fields; a context field holds the number
                        \* of the connect() that created the context, 0 = null
    contexts,           \* per connect() and side: the state of the AudioContext
    connects,           \* per connect() call: where it is and what it did
    cleanups,           \* the cleanup() invocations suspended on a close()
    channels,           \* per connect(): the state of the channel it opened
    microtasks,         \* the queued continuations of that instance, in order
    callerTask,         \* the caller of connect/disconnect is still running
    \* ---- the two request wrappers run against one script ----
    responses,          \* the status the n-th request of a run is answered with
    answers,            \* whether the n-th token prompt of a run yields a token
    hasToken,           \* a token is stored when the runs start
    apiRun,             \* callDriveApi's run
    fetchRun,           \* fetchWithAuth's run
    \* ---- the two float-to-PCM converters ----
    sample,             \* the input sample, in units of 1/SampleScale
    pcm,                \* createBlob's 16-bit value for it
    encoded,            \* createBlob has converted the sample
    clamped,            \* convertFloat32ToInt16's value for it
    converted           \* convertFloat32ToInt16 has converted the sample

driveVars == <<gapiInited, initPromise, tokenClient, isRefreshingToken, token,
               prompts, callbackOwner, refreshes, refreshOutcome, refreshToken,
               call, authErrorEvents>>

liveVars == <<svc, activeGlobalService, globalConnecting, connectAwaits,
              tasks, streamingAtStart, stopDuringStart>>

playVars == <<playing, nextStartTime, currentTime, pendingFrame, scheduled,
              speaking, framesSeen, lastScheduled, interruptedSince,
              currentInputTranscription, currentOutputTranscription, turns,
              resources, errorCalls, returned, captured, pendingSend,
              sent>>

instVars == <<self, contexts, connects, cleanups, channels, microtasks,
              callerTask>>

wrapVars == <<responses, answers, hasToken, apiRun, fetchRun>>

blobVars == <<sample, pcm, encoded, clamped, converted>>

vars == <<driveVars, liveVars, playVars, instVars, wrapVars, blobVars>>

-----------------------------------------------------------------------------
(***************************************************************************)
(*                   GeminiLiveService, connect, disconnect                *)
(*                                                                         *)
(* An instance is a record of the class's fields (TRUE = not null) and of  *)
(* the browser objects they refer to: the two AudioContexts' states, the   *)
(* microphone tracks, the ScriptProcessor node and the remote channel.     *)
(***************************************************************************)
\* The GeminiLiveService objects that can exist at a time: an object that
\* nothing refers to, and on which nothing is pending, is garbage, and the
\* next `new GeminiLiveService` may take its place (see AvailableSlots).
Inst == 1..MaxInst

TaskIds == 1..MaxTasks

\* The fields as the class initialises them (lines 66-78); no object exists.
FreshService ==
    [isActive |-> FALSE, isConnecting |-> FALSE,
     inputAudioContext |-> FALSE, outputAudioContext |-> FALSE,
     stream |-> FALSE, processor |-> FALSE, session |-> FALSE,
     sessionPromise |-> FALSE, sources |-> 0,
     inState |-> "none",      \* "none" | "suspended" | "running" | "closing" | "closed"
     outState |-> "none",
     micLive |-> FALSE,       \* the MediaStream's tracks have not been stopped
     procAttached |-> FALSE,  \* a processor node with onaudioprocess is connected
     chan |-> "none",         \* "none" | "connecting" | "open" | "failed" | "closing" | "closed"
     pc |-> "none",           \* where connect() is: "none" | "cleanup" | "resumeIn" |
                              \* "resumeOut" | "gum" | "catch" | "done" | "failed"
     openThen |-> FALSE,      \* the sessionPromise.then callback of onopen is queued
     decoding |-> 0,          \* onmessage continuations queued after decodeAudioData
     errorReported |-> FALSE] \* config.onError has been called (line 254)

\* No frame: nothing awaits decodeAudioData, nothing has been scheduled.
NoFrame == [n |-> 0, duration |-> 0, ok |-> FALSE, cursor |-> 0, clock |-> 0,
            start |-> 0, next |-> 0, at |-> 0, interrupted |-> FALSE]

FreeTask == [inst |-> 0, pc |-> "free", ready |-> FALSE, owner |-> "none"]

NoCall ==
    [kind |-> "none", force |-> FALSE, pc |-> "idle", retryCount |-> 0,
     opCalls |-> 0, tokCalls |-> 0, lastStatus |-> 0, tokOut |-> "none",
     tokVal |-> 0, tokErr |-> "NONE", joined |-> 0, outcome |-> "NONE",
     parent |-> 0, inner |-> 0, innerOutcome |-> "NONE"]

\* The connect() calls made on the one instance that is used directly, and
\* the cleanup() invocations that can be suspended at a time.
ConnectIds == 1..MaxConnects

CleanupIds == 1..MaxCleanups

\* The fields of that instance as the class initialises them (lines 66-78).
FreshFields ==
    [isActive |-> FALSE, isConnecting |-> FALSE,
     inputAudioContext |-> 0, outputAudioContext |-> 0,
     stream |-> FALSE, sessionPromise |-> 0]

\* The two AudioContexts of a connect() that has not created them.
NoContexts == [in |-> "none", out |-> "none", waiting |-> << >>]

\* A connect() call that has not been made.
NoConnect == [pc |-> "idle", overlapped |-> FALSE, acquired |-> FALSE]

\* What a cleanup() found set when it began: the numbers of the connect()
\* calls that created the objects, 0 = nothing.
Nothing == [in |-> 0, out |-> 0, promise |-> 0]

NoCleanup ==
    [pc |-> "free", owner |-> 0, began |-> Nothing]

\* The requests of one wrapper run: the first attempt and the retries.
Attempts == 1..(MAX_RETRIES + 1)

\* A wrapper run that has not started.
NoRun ==
    [pc |-> "start", retryCount |-> 0, attempts |-> 0, acquisitions |-> 0,
     prompts |-> 0, token |-> FALSE, outcome |-> "NONE"]

\* The module's state at load (lines 305-306); the DriveService is as
\* constructed and stays so.
InitLive ==
    /\ gapiInited = FALSE
    /\ initPromise = "null"
    /\ tokenClient = FALSE
    /\ isRefreshingToken = FALSE
    /\ token = 0
    /\ prompts = 0
    /\ callbackOwner = 0
    /\ refreshes = 0
    /\ refreshOutcome = [r \in 1..NCallers |-> "pending"]
    /\ refreshToken = [r \in 1..NCallers |-> 0]
    /\ call = [c \in 1..NCallers |-> NoCall]
    /\ authErrorEvents = 0
    /\ svc = [i \in Inst |-> FreshService]
    /\ activeGlobalService = 0
    /\ globalConnecting = FALSE
    /\ connectAwaits = 0
    /\ tasks = [t \in TaskIds |-> FreeTask]
    /\ streamingAtStart = {}
    /\ stopDuringStart = FALSE
    /\ playing = FALSE
    /\ nextStartTime = 0
    /\ currentTime = 0
    /\ pendingFrame = NoFrame
    /\ scheduled = {}
    /\ speaking = FALSE
    /\ framesSeen = 0
    /\ lastScheduled = NoFrame
    /\ interruptedSince = FALSE
    /\ currentInputTranscription = << >>
    /\ currentOutputTranscription = << >>
    /\ turns = << >>
    /\ resources = {}
    /\ errorCalls = 0
    /\ returned = "none"
    /\ captured = 0
    /\ pendingSend = 0
    /\ sent = << >>
    /\ self = FreshFields
    /\ contexts = [k \in ConnectIds |-> NoContexts]
    /\ connects = [k \in ConnectIds |-> NoConnect]
    /\ cleanups = [t \in CleanupIds |-> NoCleanup]
    /\ channels = [k \in ConnectIds |-> "none"]
    /\ microtasks = << >>
    /\ callerTask = FALSE
    /\ responses = [n \in Attempts |-> 200]
    /\ answers = [n \in Attempts |-> TRUE]
    /\ hasToken = FALSE
    /\ apiRun = NoRun
    /\ fetchRun = NoRun
    /\ sample = 0
    /\ pcm = 0
    /\ encoded = FALSE
    /\ clamped = 0
    /\ converted = FALSE

\* What a cleanup can find when it calls close() on an AudioContext that an
\* earlier cleanup is already closing (its state does not read 'closed' before
\* the first close() settles): the second close() rejects at once ("reject")
\* or settles when the context has closed ("wait").
CloseViews == {"reject", "wait"}

\* The views that make a difference to a cleanup of s: a context that is not
\* being closed is seen as it is.
ChoicesFor(s) ==
    [in : IF s.inputAudioContext /\ s.inState = "closing"
          THEN CloseViews ELSE {"wait"},
     out : IF s.outputAudioContext /\ s.outState = "closing"
           THEN CloseViews ELSE {"wait"}]

\* stopAllAudio, lines 292-298.
stopAllAudioStopsOne(s) == [s EXCEPT !.sources = IF @ > 0 THEN @ - 1 ELSE 0]
stopAllAudio(s) == [s EXCEPT !.sources = 0]

\* cleanup, lines 85-110: everything before the first await.
CleanupSyncKeepsAudio(s) ==
    [s EXCEPT !.isActive = FALSE, !.isConnecting = FALSE]
CleanupSync(s) ==
    stopAllAudio(
      [s EXCEPT !.isActive = FALSE,
                !.isConnecting = FALSE,
                !.procAttached = IF s.processor THEN FALSE ELSE @,
                !.processor = FALSE,
                !.chan = IF s.session /\ @ = "open" THEN "closing" ELSE @,
                !.session = FALSE,
                !.micLive = IF s.stream THEN FALSE ELSE @,
                !.stream = FALSE])

\* cleanup, line 126, and its return.
CleanupFinish(s) ==
    [s |-> [s EXCEPT !.sessionPromise = FALSE], pc |-> "done", ready |-> TRUE]

\* cleanup, lines 119-124.
CleanupOut(s, ch) ==
    IF ~s.outputAudioContext
    THEN CleanupFinish(s)
    ELSE IF s.outState = "closed"
    THEN CleanupFinish([s EXCEPT !.outputAudioContext = FALSE])
    ELSE [s |-> [s EXCEPT !.outState = "closing"], pc |-> "awaitOut",
          ready |-> (s.outState = "closing" /\ ch.out = "reject")]

\* cleanup, lines 112-117.
CleanupIn(s, ch) ==
    IF ~s.inputAudioContext
    THEN CleanupOut(s, ch)
    ELSE IF s.inState = "closed"
    THEN CleanupOut([s EXCEPT !.inputAudioContext = FALSE], ch)
    ELSE [s |-> [s EXCEPT !.inState = "closing"], pc |-> "awaitIn",
          ready |-> (s.inState = "closing" /\ ch.in = "reject")]

\* cleanup from its call to its first suspension or its return.
Cleanup(s, ch) == CleanupIn(CleanupSync(s), ch)

FreeSlots(tk) == {t \in TaskIds : tk[t].pc = "free"}

FirstFree(tk) == CHOOSE t \in FreeSlots(tk) : \A u \in FreeSlots(tk) : t <= u

\* An instance that is over: inactive, every field null, every object it
\* created closed, no callback of its channel or of its connect() to come.
Dead(s) ==
    /\ s.pc \in {"done", "failed"}
    /\ s.chan \in {"none", "closed"}
    /\ s.inState \in {"none", "closed"}
    /\ s.outState \in {"none", "closed"}
    /\ s = [FreshService EXCEPT !.pc = s.pc, !.chan = s.chan,
                                !.inState = s.inState, !.outState = s.outState,
                                !.errorReported = s.errorReported]

\* A continuation the engine runs as a microtask is queued: it runs before
\* any timer, browser or network event and before any further call.
MicroPending ==
    \/ \E t \in TaskIds : tasks[t].pc = "done"
    \/ \E t \in TaskIds : tasks[t].pc \in {"awaitIn", "awaitOut"} /\ tasks[t].ready
    \/ \E i \in Inst : svc[i].openThen \/ svc[i].decoding > 0

\* Instance i, whose record is s at the call, runs cleanup() for `owner`:
\* "none" (the callbacks' un-awaited this.cleanup()), "iconn" (connect, line
\* 137), "icatch" (connect, line 273), "mconn" (exported connect, line 323)
\* or "mdisc" (exported disconnect, line 347).  A slot of tk holds the
\* invocation while it is suspended or its caller has not resumed.
StartCleanup(i, s, owner, tk) ==
    \E ch \in ChoicesFor(s) :
        LET res == Cleanup(s, ch)
            held == ~(owner = "none" /\ res.pc = "done")
        IN /\ held => FreeSlots(tk) # {}
           /\ svc' = [svc EXCEPT ![i] = res.s]
           /\ tasks' = IF held
                       THEN [tk EXCEPT ![FirstFree(tk)] =
                               [inst |-> i, pc |-> res.pc, ready |-> res.ready,
                                owner |-> owner]]
                       ELSE tk

\* The exported connect returns without its finally block.
ModuleReturnsKeepingLatch(i) ==
    IF connectAwaits = i
    THEN connectAwaits' = 0 /\ UNCHANGED globalConnecting
    ELSE UNCHANGED <<globalConnecting, connectAwaits>>
\* The exported connect's finally (lines 340-342), run when the connect() of
\* instance i that it awaits has settled.
ModuleFinally(i) ==
    IF connectAwaits = i
    THEN globalConnecting' = FALSE /\ connectAwaits' = 0
    ELSE UNCHANGED <<globalConnecting, connectAwaits>>

\* Where a new GeminiLiveService can be put: a slot never used or holding a
\* dead instance, to which neither the module, nor a pending cleanup, nor
\* the history in keep refers.
AvailableSlots(tk, keep) ==
    {j \in Inst :
        /\ svc[j] = FreshService \/ Dead(svc[j])
        /\ j # activeGlobalService
        /\ j # connectAwaits
        /\ j \notin keep
        /\ \A t \in TaskIds : tk[t].pc # "free" => tk[t].inst # j}

\* Lines 327-339: construct a GeminiLiveService, store it, call its connect()
\* (lines 129-137: the guard, the latch, the first cleanup).
NewService(tk, keep) ==
    LET free == AvailableSlots(tk, keep)
        j == CHOOSE k \in free : \A u \in free : k <= u
        s == FreshService
    IN /\ free # {}
       /\ activeGlobalService' = j
       /\ connectAwaits' = j
       /\ IF s.isConnecting \/ s.isActive
          THEN /\ svc' = [svc EXCEPT ![j] = s]
               /\ tasks' = tk
          ELSE StartCleanup(j, [s EXCEPT !.isConnecting = TRUE, !.pc = "cleanup"],
                            "iconn", tk)

Streaming(s) == s.isActive /\ s.session /\ s.processor

\* The UI calls the exported connect (lines 308-343).
ModuleConnect ==
    /\ UNCHANGED <<driveVars, playVars, instVars, wrapVars, blobVars>>
    /\ ~MicroPending
    /\ IF globalConnecting
       THEN UNCHANGED liveVars
       ELSE /\ AvailableSlots(tasks, {i \in Inst : Streaming(svc[i])}) # {}
            /\ globalConnecting' = TRUE
            /\ streamingAtStart' = {i \in Inst : Streaming(svc[i])}
            /\ stopDuringStart' = FALSE
            /\ IF activeGlobalService # 0
               THEN /\ StartCleanup(activeGlobalService, svc[activeGlobalService],
                                    "mconn", tasks)
                    /\ UNCHANGED <<activeGlobalService, connectAwaits>>
               ELSE NewService(tasks, {i \in Inst : Streaming(svc[i])})

\* The UI calls the exported disconnect (lines 345-350).
ModuleDisconnect ==
    /\ UNCHANGED <<driveVars, playVars, instVars, wrapVars, blobVars>>
    /\ ~MicroPending
    /\ activeGlobalService # 0
    /\ StartCleanup(activeGlobalService, svc[activeGlobalService], "mdisc", tasks)
    /\ stopDuringStart' = (stopDuringStart \/ globalConnecting)
    /\ UNCHANGED <<activeGlobalService, globalConnecting, connectAwaits,
                   streamingAtStart>>

\* A context of instance i has closed: the close() promises settle.
ContextClosed(i, which) ==
    /\ UNCHANGED <<driveVars, playVars, instVars, wrapVars, blobVars>>
    /\ ~MicroPending
    /\ IF which = "in"
       THEN /\ svc[i].inState = "closing"
            /\ svc' = [svc EXCEPT ![i].inState = "closed"]
            /\ tasks' = [t \in TaskIds |->
                           IF tasks[t].inst = i /\ tasks[t].pc = "awaitIn"
                           THEN [tasks[t] EXCEPT !.ready = TRUE] ELSE tasks[t]]
       ELSE /\ svc[i].outState = "closing"
            /\ svc' = [svc EXCEPT ![i].outState = "closed"]
            /\ tasks' = [t \in TaskIds |->
                           IF tasks[t].inst = i /\ tasks[t].pc = "awaitOut"
                           THEN [tasks[t] EXCEPT !.ready = TRUE] ELSE tasks[t]]
    /\ UNCHANGED <<activeGlobalService, globalConnecting, connectAwaits,
                   streamingAtStart, stopDuringStart>>

\* cleanup resumes after `await ...close()` (lines 116-126).
CleanupResumes(t) ==
    /\ UNCHANGED <<driveVars, playVars, instVars, wrapVars, blobVars>>
    /\ tasks[t].pc \in {"awaitIn", "awaitOut"}
    /\ tasks[t].ready
    /\ \E ch \in ChoicesFor(svc[tasks[t].inst]) :
       LET i == tasks[t].inst
           res == IF tasks[t].pc = "awaitIn"
                  THEN CleanupOut([svc[i] EXCEPT !.inputAudioContext = FALSE], ch)
                  ELSE CleanupFinish([svc[i] EXCEPT !.outputAudioContext = FALSE])
       IN /\ svc' = [svc EXCEPT ![i] = res.s]
          /\ tasks' = [tasks EXCEPT ![t] =
                         IF tasks[t].owner = "none" /\ res.pc = "done"
                         THEN FreeTask
                         ELSE [@ EXCEPT !.pc = res.pc, !.ready = res.ready]]
    /\ UNCHANGED <<activeGlobalService, globalConnecting, connectAwaits,
                   streamingAtStart, stopDuringStart>>

\* The exported disconnect resumes after its await (line 348).
DisconnectReturns(t) ==
    /\ UNCHANGED <<driveVars, playVars, instVars, wrapVars, blobVars>>
    /\ tasks[t].pc = "done"
    /\ tasks[t].owner = "mdisc"
    /\ activeGlobalService' = 0
    /\ tasks' = [tasks EXCEPT ![t] = FreeTask]
    /\ UNCHANGED <<svc, globalConnecting, connectAwaits,
                   streamingAtStart, stopDuringStart>>

\* The exported connect resumes after awaiting the old service's disconnect
\* (lines 324-339).
ConnectAfterTeardown(t) ==
    /\ UNCHANGED <<driveVars, playVars, instVars, wrapVars, blobVars>>
    /\ tasks[t].pc = "done"
    /\ tasks[t].owner = "mconn"
    /\ NewService([tasks EXCEPT ![t] = FreeTask], streamingAtStart)
    /\ UNCHANGED <<globalConnecting, streamingAtStart, stopDuringStart>>

\* connect() of an instance resumes after its first cleanup (lines 138-147):
\* it becomes active, creates both contexts, and either awaits resume() (the
\* contexts start suspended) or requests the microphone.
ConnectAcquires(t, suspended) ==
    /\ UNCHANGED <<driveVars, playVars, instVars, wrapVars, blobVars>>
    /\ tasks[t].pc = "done"
    /\ tasks[t].owner = "iconn"
    /\ LET i == tasks[t].inst
           st == IF suspended THEN "suspended" ELSE "running"
       IN svc' = [svc EXCEPT ![i] =
                    [@ EXCEPT !.isActive = TRUE,
                              !.inputAudioContext = TRUE,
                              !.outputAudioContext = TRUE,
                              !.inState = st, !.outState = st,
                              !.pc = IF suspended THEN "resumeIn" ELSE "gum"]]
    /\ tasks' = [tasks EXCEPT ![t] = FreeTask]
    /\ UNCHANGED <<activeGlobalService, globalConnecting, connectAwaits,
                   streamingAtStart, stopDuringStart>>

\* connect()'s catch (lines 272-274): await this.cleanup().
ConnectCatchesWithoutCleanup(i, s) ==
    /\ svc' = [svc EXCEPT ![i] = [s EXCEPT !.isConnecting = FALSE, !.pc = "failed"]]
    /\ ModuleFinally(i)
    /\ UNCHANGED <<tasks, activeGlobalService, streamingAtStart, stopDuringStart>>
ConnectCatches(i, s) ==
    /\ StartCleanup(i, [s EXCEPT !.pc = "catch"], "icatch", tasks)
    /\ UNCHANGED <<activeGlobalService, globalConnecting, connectAwaits,
                   streamingAtStart, stopDuringStart>>

\* A resume() promise settles (lines 144-145): it resolves if the context is
\* still there to resume and rejects if it has been closed meanwhile.
ResumeSettles(i) ==
    /\ UNCHANGED <<driveVars, playVars, instVars, wrapVars, blobVars>>
    /\ ~MicroPending
    /\ svc[i].pc \in {"resumeIn", "resumeOut"}
    /\ IF svc[i].pc = "resumeIn"
       THEN IF svc[i].inState = "suspended" /\ svc[i].outputAudioContext
            THEN /\ svc' = [svc EXCEPT ![i].inState = "running",
                                       ![i].pc = IF svc[i].outState = "suspended"
                                                 THEN "resumeOut" ELSE "gum"]
                 /\ UNCHANGED <<tasks, activeGlobalService,
                                globalConnecting, connectAwaits, streamingAtStart,
                                stopDuringStart>>
            ELSE ConnectCatches(i, svc[i])
       ELSE IF svc[i].outState = "suspended"
            THEN /\ svc' = [svc EXCEPT ![i].outState = "running", ![i].pc = "gum"]
                 /\ UNCHANGED <<tasks, activeGlobalService,
                                globalConnecting, connectAwaits, streamingAtStart,
                                stopDuringStart>>
            ELSE ConnectCatches(i, svc[i])

\* getUserMedia settles (lines 147-149).  "granted": the stream is stored, the
\* channel is opened (lines 150-271), finally clears the latch (line 276) and
\* connect() returns.  "denied": the catch block.  "throws": the stream is
\* stored and the set-up of the channel throws (new GoogleGenAI without an
\* API key, line 150): the catch block.
GetUserMediaSettles(i, granted) ==
    /\ UNCHANGED <<driveVars, playVars, instVars, wrapVars, blobVars>>
    /\ ~MicroPending
    /\ svc[i].pc = "gum"
    /\ IF granted = "granted"
       THEN /\ svc' = [svc EXCEPT ![i] =
                         [@ EXCEPT !.stream = TRUE, !.micLive = TRUE,
                                   !.sessionPromise = TRUE, !.chan = "connecting",
                                   !.isConnecting = FALSE, !.pc = "done"]]
            /\ ModuleFinally(i)
            /\ UNCHANGED <<tasks, activeGlobalService, streamingAtStart,
                           stopDuringStart>>
       ELSE IF granted = "denied"
       THEN ConnectCatches(i, svc[i])
       ELSE ConnectCatches(i, [svc[i] EXCEPT !.stream = TRUE, !.micLive = TRUE])

\* connect() resumes after the catch block's cleanup: throw err, finally
\* (lines 274-277); the exported connect's finally follows.
ConnectRejects(t) ==
    /\ UNCHANGED <<driveVars, playVars, instVars, wrapVars, blobVars>>
    /\ tasks[t].pc = "done"
    /\ tasks[t].owner = "icatch"
    /\ svc' = [svc EXCEPT ![tasks[t].inst].isConnecting = FALSE,
                          ![tasks[t].inst].pc = "failed"]
    /\ ModuleFinally(tasks[t].inst)
    /\ tasks' = [tasks EXCEPT ![t] = FreeTask]
    /\ UNCHANGED <<activeGlobalService, streamingAtStart, stopDuringStart>>

\* The channel's onopen callback (lines 170-200), up to the .then().
OnOpen(i) ==
    /\ UNCHANGED <<driveVars, playVars, instVars, wrapVars, blobVars>>
    /\ ~MicroPending
    /\ svc[i].chan = "connecting"
    /\ LET s == [svc[i] EXCEPT !.chan = "open"] IN
       IF ~s.isActive \/ ~s.inputAudioContext \/ ~s.stream
       THEN StartCleanup(i, s, "none", tasks)
       ELSE /\ svc' = [svc EXCEPT ![i] = [s EXCEPT !.openThen = s.sessionPromise]]
            /\ UNCHANGED tasks
    /\ UNCHANGED <<activeGlobalService, globalConnecting, connectAwaits,
                   streamingAtStart, stopDuringStart>>

\* The callback given to sessionPromise.then in onopen (lines 176-199).
OpenThen(i) ==
    /\ UNCHANGED <<driveVars, playVars, instVars, wrapVars, blobVars>>
    /\ svc[i].openThen
    /\ svc' = [svc EXCEPT ![i] =
                 IF ~svc[i].isActive
                 THEN [@ EXCEPT !.openThen = FALSE,
                                !.chan = IF @ = "open" THEN "closing" ELSE @]
                 ELSE [@ EXCEPT !.openThen = FALSE, !.session = TRUE,
                                !.processor = TRUE, !.procAttached = TRUE]]
    /\ UNCHANGED <<activeGlobalService, globalConnecting, connectAwaits,
                   tasks, streamingAtStart, stopDuringStart>>

\* onmessage with an audio part (lines 201-202, 221-227), up to the await.
OnAudioMessage(i) ==
    /\ UNCHANGED <<driveVars, playVars, instVars, wrapVars, blobVars>>
    /\ ~MicroPending
    /\ svc[i].chan = "open"
    /\ svc[i].sources + svc[i].decoding < MaxSources
    /\ svc' = IF svc[i].isActive /\ svc[i].outputAudioContext
              THEN [svc EXCEPT ![i].decoding = @ + 1]
              ELSE svc
    /\ UNCHANGED <<activeGlobalService, globalConnecting, connectAwaits,
                   tasks, streamingAtStart, stopDuringStart>>

\* onmessage resumes after decodeAudioData (lines 228-241).
DecodeDone(i) ==
    /\ UNCHANGED <<driveVars, playVars, instVars, wrapVars, blobVars>>
    /\ svc[i].decoding > 0
    /\ svc' = IF svc[i].isActive /\ svc[i].outputAudioContext
              THEN [svc EXCEPT ![i].decoding = @ - 1, ![i].sources = @ + 1]
              ELSE [svc EXCEPT ![i].decoding = @ - 1]
    /\ UNCHANGED <<activeGlobalService, globalConnecting, connectAwaits,
                   tasks, streamingAtStart, stopDuringStart>>

\* onmessage with serverContent.interrupted (lines 201-202, 247-250).
OnInterrupted(i) ==
    /\ UNCHANGED <<driveVars, playVars, instVars, wrapVars, blobVars>>
    /\ ~MicroPending
    /\ svc[i].chan = "open"
    /\ svc' = IF svc[i].isActive
              THEN [svc EXCEPT ![i] = stopAllAudio(@)]
              ELSE svc
    /\ UNCHANGED <<activeGlobalService, globalConnecting, connectAwaits,
                   tasks, streamingAtStart, stopDuringStart>>

\* A scheduled source finishes playing: source.onended (lines 234-237).
SourceEnded(i) ==
    /\ UNCHANGED <<driveVars, playVars, instVars, wrapVars, blobVars>>
    /\ ~MicroPending
    /\ svc[i].sources > 0
    /\ svc' = [svc EXCEPT ![i].sources = @ - 1]
    /\ UNCHANGED <<activeGlobalService, globalConnecting, connectAwaits,
                   tasks, streamingAtStart, stopDuringStart>>

\* The channel's onerror callback (lines 252-256).
OnErrorOnlyReports(i) ==
    /\ UNCHANGED <<driveVars, playVars, instVars, wrapVars, blobVars>>
    /\ ~MicroPending
    /\ svc[i].chan \in {"connecting", "open"}
    /\ svc' = [svc EXCEPT ![i].chan = "failed", ![i].errorReported = TRUE]
    /\ UNCHANGED <<activeGlobalService, globalConnecting, connectAwaits, tasks,
                   streamingAtStart, stopDuringStart>>
OnError(i) ==
    /\ UNCHANGED <<driveVars, playVars, instVars, wrapVars, blobVars>>
    /\ ~MicroPending
    /\ svc[i].chan \in {"connecting", "open"}
    /\ LET s == [svc[i] EXCEPT !.chan = "failed", !.errorReported = TRUE] IN
       StartCleanup(i, s, "none", tasks)
    /\ UNCHANGED <<activeGlobalService, globalConnecting, connectAwaits,
                   streamingAtStart, stopDuringStart>>

\* The channel's onclose callback (lines 257-260): the channel has closed,
\* after an error, after session.close(), or from the remote side.
OnClose(i) ==
    /\ UNCHANGED <<driveVars, playVars, instVars, wrapVars, blobVars>>
    /\ ~MicroPending
    /\ svc[i].chan \in {"open", "failed", "closing"}
    /\ LET s == [svc[i] EXCEPT !.chan = "closed"] IN
       StartCleanup(i, s, "none", tasks)
    /\ UNCHANGED <<activeGlobalService, globalConnecting, connectAwaits,
                   streamingAtStart, stopDuringStart>>

NextLive ==
    \/ ModuleConnect
    \/ ModuleDisconnect
    \/ \E i \in Inst, which \in {"in", "out"} : ContextClosed(i, which)
    \/ \E t \in TaskIds : CleanupResumes(t)
    \/ \E t \in TaskIds : DisconnectReturns(t)
    \/ \E t \in TaskIds : ConnectAfterTeardown(t)
    \/ \E t \in TaskIds, suspended \in BOOLEAN : ConnectAcquires(t, suspended)
    \/ \E i \in Inst : ResumeSettles(i)
    \/ \E i \in Inst, granted \in {"granted", "denied", "throws"} :
          GetUserMediaSettles(i, granted)
    \/ \E t \in TaskIds : ConnectRejects(t)
    \/ \E i \in Inst : OnOpen(i)
    \/ \E i \in Inst : OpenThen(i)
    \/ \E i \in Inst : OnAudioMessage(i)
    \/ \E i \in Inst : DecodeDone(i)
    \/ \E i \in Inst : OnInterrupted(i)
    \/ \E i \in Inst : SourceEnded(i)
    \/ \E i \in Inst : OnError(i)
    \/ \E i \in Inst : OnClose(i)

-----------------------------------------------------------------------------
(***************************************************************************)
(*                              DriveService                               *)
(***************************************************************************)
Callers == 1..NCallers

\* What an operation passed to callDriveApi can settle with: a result, or an
\* error whose status is authorization-class (401, 403), rate-limit (429) or
\* anything else (500).
Statuses == {200, 401, 403, 429, 500}

IsAuthStatusOr429(st) == st = 401 \/ st = 403 \/ st = 429
IsAuthStatus(st) == st = 401 \/ st = 403

IsRateLimitStatus(st) == st = 429

\* The DriveService as constructed (lines 24-29), with or without a token
\* restored by AuthProvider (setToken); no live session exists.
InitDrive ==
    /\ svc = [i \in Inst |-> FreshService]
    /\ activeGlobalService = 0
    /\ globalConnecting = FALSE
    /\ connectAwaits = 0
    /\ tasks = [t \in TaskIds |-> FreeTask]
    /\ streamingAtStart = {}
    /\ stopDuringStart = FALSE
    /\ playing = FALSE
    /\ nextStartTime = 0
    /\ currentTime = 0
    /\ pendingFrame = NoFrame
    /\ scheduled = {}
    /\ speaking = FALSE
    /\ framesSeen = 0
    /\ lastScheduled = NoFrame
    /\ interruptedSince = FALSE
    /\ currentInputTranscription = << >>
    /\ currentOutputTranscription = << >>
    /\ turns = << >>
    /\ resources = {}
    /\ errorCalls = 0
    /\ returned = "none"
    /\ captured = 0
    /\ pendingSend = 0
    /\ sent = << >>
    /\ self = FreshFields
    /\ contexts = [k \in ConnectIds |-> NoContexts]
    /\ connects = [k \in ConnectIds |-> NoConnect]
    /\ cleanups = [t \in CleanupIds |-> NoCleanup]
    /\ channels = [k \in ConnectIds |-> "none"]
    /\ microtasks = << >>
    /\ callerTask = FALSE
    /\ responses = [n \in Attempts |-> 200]
    /\ answers = [n \in Attempts |-> TRUE]
    /\ hasToken = FALSE
    /\ apiRun = NoRun
    /\ fetchRun = NoRun
    /\ sample = 0
    /\ pcm = 0
    /\ encoded = FALSE
    /\ clamped = 0
    /\ converted = FALSE
    /\ gapiInited = FALSE
    /\ initPromise = "null"
    /\ tokenClient = FALSE
    /\ isRefreshingToken = FALSE
    /\ token \in {0, 1}
    /\ prompts = 0
    /\ callbackOwner = 0
    /\ refreshes = 0
    /\ refreshOutcome = [r \in 1..NCallers |-> "pending"]
    /\ refreshToken = [r \in 1..NCallers |-> 0]
    /\ call = [c \in Callers |-> NoCall]
    /\ authErrorEvents = 0


\* The token a successful refresh number r stores (distinct from the tokens of
\* Init and of every other refresh).
FreshToken(r) == r + 1

\* callDriveApi line 178: the retry budget.
RetryBudgetOffByOne(retryCount) == retryCount <= MAX_RETRIES
RetryBudgetRemains(retryCount) == retryCount < MAX_RETRIES

\* getAccessToken line 116: the single-flight test.
RefreshInProgressIgnored == FALSE
RefreshInProgress == isRefreshingToken

\* What the caller of callDriveApi receives when the frame with this
\* retryCount throws err: the retry frame runs inside the first frame's
\* try { ... } catch (authErr) { throw new Error("AUTH_DEAD") } (lines 180-186),
\* which catches whatever the retry frame throws.
Thrown(retryCount, err) == IF retryCount > 0 THEN "AUTH_DEAD" ELSE err

Done(r, out) == [r EXCEPT !.pc = "done", !.outcome = out]

\* Line 172: `return await operation()` hands the operation's result on.
OperationResultDropped(r) == Done(r, "UNDEFINED")
OperationResult(r) == Done(r, "RESULT")

\* What getAccessToken rejects with (lines 137 and 145): a plain Error whose
\* message is a fixed text or the response's error_description / error; it
\* is never the "AUTH_DEAD" that callDriveApi throws.
TokenError == "ERROR"

\* The continuation of `await this.getAccessToken(...)` in the caller r:
\* callDriveApi re-enters itself with retryCount + 1 and invokes the operation
\* (lines 181-182), or lands in catch (authErr) (lines 183-186); a direct
\* caller of getAccessToken just receives the outcome.
AfterTokenRetriesAnyway(r, ok, tok) ==
    IF r.kind = "api"
    THEN [r EXCEPT !.pc = "op", !.retryCount = @ + 1,
                   !.tokOut = IF ok THEN "resolved" ELSE "rejected", !.tokVal = tok]
    ELSE IF ok
         THEN [Done(r, "TOKEN") EXCEPT !.tokOut = "resolved", !.tokVal = tok]
         ELSE [Done(r, "TOKEN_ERROR") EXCEPT !.tokOut = "rejected", !.tokErr = TokenError]
AfterToken(r, ok, tok) ==
    IF r.kind = "api"
    THEN IF ok
         THEN [r EXCEPT !.pc = "op", !.retryCount = @ + 1,
                        !.tokOut = "resolved", !.tokVal = tok]
         ELSE [Done(r, "AUTH_DEAD") EXCEPT !.tokOut = "rejected", !.tokErr = TokenError]
    ELSE IF ok
         THEN [Done(r, "TOKEN") EXCEPT !.tokOut = "resolved", !.tokVal = tok]
         ELSE [Done(r, "TOKEN_ERROR") EXCEPT !.tokOut = "rejected", !.tokErr = TokenError]

\* getAccessToken(forcePrompt), lines 111-158, up to its first suspension;
\* r is the caller's record at the call.
GetAccessToken(c, forcePrompt, r) ==
    LET r1 == [r EXCEPT !.tokCalls = @ + 1] IN
    IF RefreshInProgress
    THEN \* lines 116-126: poll until the refresh in flight is over
         /\ call' = [call EXCEPT ![c] = [r1 EXCEPT !.pc = "wait",
                                                    !.joined = refreshes]]
         /\ UNCHANGED <<isRefreshingToken, prompts, callbackOwner, refreshes>>
    ELSE IF ~forcePrompt /\ token # 0
    THEN \* lines 130-134: the stored token
         /\ call' = [call EXCEPT ![c] = AfterToken(r1, TRUE, token)]
         /\ UNCHANGED <<isRefreshingToken, prompts, callbackOwner, refreshes>>
    ELSE IF ~tokenClient
    THEN \* lines 136-139
         /\ call' = [call EXCEPT ![c] = AfterToken(r1, FALSE, 0)]
         /\ UNCHANGED <<isRefreshingToken, prompts, callbackOwner, refreshes>>
    ELSE \* lines 141-152: set the latch and the callback, show the prompt
         /\ isRefreshingToken' = TRUE
         /\ callbackOwner' = c
         /\ prompts' = prompts + 1
         /\ refreshes' = refreshes + 1
         /\ call' = [call EXCEPT ![c] = [r1 EXCEPT !.pc = "refresh",
                                                    !.joined = refreshes + 1]]

\* A collaborator calls callDriveApi(operation): lines 164-172.
CallDriveApi(c) ==
    /\ UNCHANGED <<liveVars, playVars, instVars, wrapVars, blobVars>>
    /\ call[c].pc = "idle"
    /\ IF gapiInited
       THEN /\ call' = [call EXCEPT ![c] = [@ EXCEPT !.kind = "api", !.pc = "op"]]
            /\ UNCHANGED initPromise
       ELSE /\ call' = [call EXCEPT ![c] = [@ EXCEPT !.kind = "api", !.pc = "init"]]
            /\ initPromise' = "pending"
    /\ UNCHANGED <<gapiInited, tokenClient, isRefreshingToken, token, prompts,
                   callbackOwner, refreshes, refreshOutcome, refreshToken,
                   authErrorEvents>>

\* A collaborator calls getAccessToken(forcePrompt) directly (as fetchWithAuth
\* and loginUser do) once the service is initialised.
CallGetAccessToken(c, forcePrompt) ==
    /\ UNCHANGED <<liveVars, playVars, instVars, wrapVars, blobVars>>
    /\ call[c].pc = "idle"
    /\ gapiInited
    /\ GetAccessToken(c, forcePrompt,
                      [call[c] EXCEPT !.kind = "token", !.force = forcePrompt])
    /\ UNCHANGED <<gapiInited, initPromise, tokenClient, token, refreshOutcome,
                   refreshToken, authErrorEvents>>

\* initializeDrive (lines 57-109) settles: every caller awaiting it goes on.
\* On success both flags and the token client are set; on failure the promise
\* is dropped and the error reaches callDriveApi's caller from outside its
\* try block (lines 167-169).
InitializeDriveSettles(ok) ==
    /\ UNCHANGED <<liveVars, playVars, instVars, wrapVars, blobVars>>
    /\ initPromise = "pending"
    /\ gapiInited' = ok
    /\ tokenClient' = ok
    /\ initPromise' = IF ok THEN "resolved" ELSE "null"
    /\ call' = [c \in Callers |->
                  IF call[c].pc = "init"
                  THEN IF ok THEN [call[c] EXCEPT !.pc = "op"]
                             ELSE Done(call[c], "ERROR")
                  ELSE call[c]]
    /\ UNCHANGED <<isRefreshingToken, token, prompts, callbackOwner, refreshes,
                   refreshOutcome, refreshToken, authErrorEvents>>

\* The operation of caller c settles with status st: lines 172-199.
OperationSettles(c, st) ==
    /\ UNCHANGED <<liveVars, playVars, instVars, wrapVars, blobVars>>
    /\ call[c].pc = "op"
    /\ LET r == [call[c] EXCEPT !.opCalls = @ + 1, !.lastStatus = st] IN
       IF st = 200
       THEN /\ call' = [call EXCEPT ![c] = OperationResult(r)]
            /\ UNCHANGED <<isRefreshingToken, prompts, callbackOwner, refreshes>>
       ELSE IF IsAuthStatus(st)
       THEN IF RetryBudgetRemains(r.retryCount)
            THEN GetAccessToken(c, TRUE, r)
            ELSE /\ call' = [call EXCEPT ![c] =
                               Done(r, Thrown(r.retryCount, "AUTH_DEAD"))]
                 /\ UNCHANGED <<isRefreshingToken, prompts, callbackOwner,
                                refreshes>>
       ELSE IF IsRateLimitStatus(st)
       THEN /\ call' = [call EXCEPT ![c] =
                          Done(r, Thrown(r.retryCount, "RATE_LIMIT_EXCEEDED"))]
            /\ UNCHANGED <<isRefreshingToken, prompts, callbackOwner, refreshes>>
       ELSE /\ call' = [call EXCEPT ![c] = Done(r, Thrown(r.retryCount, "ERROR"))]
            /\ UNCHANGED <<isRefreshingToken, prompts, callbackOwner, refreshes>>
    /\ UNCHANGED <<gapiInited, initPromise, tokenClient, token, refreshOutcome,
                   refreshToken, authErrorEvents>>

\* Line 174: the status callDriveApi reads from what the operation threw.  An
\* Error thrown by a nested callDriveApi ("AUTH_DEAD", "RATE_LIMIT_EXCEEDED")
\* has no status and no result; an error it passed through unchanged keeps
\* its own status, which is neither 401, 403 nor 429.
NestedStatusIsAuth(outcome) == IF outcome = "AUTH_DEAD" THEN 401 ELSE 0
NestedStatus(outcome) == 0

\* The operation of the top-level call c is one of those that call
\* callDriveApi themselves (saveBranch, renameBranchFile: lines 465-495): the
\* nested call d starts (lines 164-172; the service is initialised).
OperationCallsDriveApi(c, d) ==
    /\ UNCHANGED <<liveVars, playVars, instVars, wrapVars, blobVars>>
    /\ c # d
    /\ call[c].pc = "op"
    /\ call[c].parent = 0
    /\ call[d].pc = "idle"
    /\ call' = [call EXCEPT ![c] = [@ EXCEPT !.pc = "nested", !.inner = d],
                            ![d] = [@ EXCEPT !.kind = "api", !.pc = "op",
                                             !.parent = c]]
    /\ UNCHANGED <<gapiInited, initPromise, tokenClient, isRefreshingToken,
                   token, prompts, callbackOwner, refreshes, refreshOutcome,
                   refreshToken, authErrorEvents>>

\* The nested call d is over and the operation of c settles with it: with
\* its result, or by throwing what d threw, which callDriveApi classifies
\* (lines 173-199) as it does any error.
NestedCallReturns(c, d) ==
    /\ UNCHANGED <<liveVars, playVars, instVars, wrapVars, blobVars>>
    /\ call[c].pc = "nested"
    /\ call[c].inner = d
    /\ call[d].pc = "done"
    /\ LET out == call[d].outcome
           st == IF out = "RESULT" THEN 200 ELSE NestedStatus(out)
           r == [call[c] EXCEPT !.opCalls = @ + 1, !.lastStatus = st,
                                !.innerOutcome = out]
       IN  IF out = "RESULT"
           THEN /\ call' = [call EXCEPT ![c] = OperationResult(r)]
                /\ UNCHANGED <<isRefreshingToken, prompts, callbackOwner,
                               refreshes>>
           ELSE IF IsAuthStatus(st) /\ RetryBudgetRemains(r.retryCount)
           THEN GetAccessToken(c, TRUE, r)
           ELSE /\ call' = [call EXCEPT
                              ![c] = Done(r, Thrown(r.retryCount,
                                                    IF IsAuthStatus(st)
                                                    THEN "AUTH_DEAD" ELSE out))]
                /\ UNCHANGED <<isRefreshingToken, prompts, callbackOwner,
                               refreshes>>
    /\ UNCHANGED <<gapiInited, initPromise, tokenClient, token, refreshOutcome,
                   refreshToken, authErrorEvents>>

\* Google Identity Services answers a prompt by calling tokenClient.callback
\* (lines 142-150) with a token response (ok) or an error response.
TokenCallback(ok) ==
    /\ UNCHANGED <<liveVars, playVars, instVars, wrapVars, blobVars>>
    /\ prompts > 0
    /\ prompts' = prompts - 1
    /\ isRefreshingToken' = FALSE
    /\ token' = IF ok THEN FreshToken(refreshes) ELSE token
    /\ refreshOutcome' = [refreshOutcome EXCEPT ![refreshes] =
                            IF ok THEN "ok" ELSE "error"]
    /\ refreshToken' = [refreshToken EXCEPT ![refreshes] =
                            IF ok THEN FreshToken(refreshes) ELSE 0]
    /\ call' = IF call[callbackOwner].pc = "refresh"
               THEN [call EXCEPT ![callbackOwner] =
                        AfterToken(@, ok, FreshToken(refreshes))]
               ELSE call
    /\ UNCHANGED <<gapiInited, initPromise, tokenClient, callbackOwner,
                   refreshes, authErrorEvents>>

\* The user closes the prompt window: Google Identity Services reports that
\* to error_callback, which initTokenClient was not given (lines 92-96), so
\* tokenClient.callback never runs for this prompt.
PromptClosed ==
    /\ UNCHANGED <<liveVars, playVars, instVars, wrapVars, blobVars>>
    /\ prompts > 0
    /\ prompts' = prompts - 1
    /\ refreshOutcome' = [refreshOutcome EXCEPT ![refreshes] = "closed"]
    /\ UNCHANGED <<gapiInited, initPromise, tokenClient, isRefreshingToken,
                   token, callbackOwner, refreshes, refreshToken, call,
                   authErrorEvents>>

\* The waiter's 100 ms interval fires (lines 119-124): once the latch is down
\* it resolves with whatever token is stored.
WaiterPoll(c) ==
    /\ UNCHANGED <<liveVars, playVars, instVars, wrapVars, blobVars>>
    /\ call[c].pc = "wait"
    /\ ~isRefreshingToken
    /\ call' = [call EXCEPT ![c] = AfterToken(@, TRUE, token)]
    /\ UNCHANGED <<gapiInited, initPromise, tokenClient, isRefreshingToken,
                   token, prompts, callbackOwner, refreshes, refreshOutcome,
                   refreshToken, authErrorEvents>>

\* MainLayout's listener (lines 24-29): the banner shows once a
\* 'google-auth-error' event has reached window.
showAuthBanner == authErrorEvents > 0

NextDrive ==
    \/ \E c \in Callers, d \in Callers : OperationCallsDriveApi(c, d)
    \/ \E c \in Callers, d \in Callers : NestedCallReturns(c, d)
    \/ \E c \in Callers : CallDriveApi(c)
    \/ \E c \in Callers, forcePrompt \in BOOLEAN : CallGetAccessToken(c, forcePrompt)
    \/ \E ok \in BOOLEAN : InitializeDriveSettles(ok)
    \/ \E c \in Callers, st \in Statuses : OperationSettles(c, st)
    \/ \E ok \in BOOLEAN : TokenCallback(ok)
    \/ PromptClosed
    \/ \E c \in Callers : WaiterPoll(c)

SpecDrive == InitDrive /\ [][NextDrive]_vars

SpecLive == InitLive /\ [][NextLive]_vars

\* Liveness of the DriveService: what the program and the network do on their
\* own happens eventually (the waiter's setInterval fires, initializeDrive and
\* a Drive request settle).  Whether and when the user answers or closes the
\* authorization prompt is left open.
SpecDriveFair ==
    /\ SpecDrive
    /\ WF_vars(\E c \in Callers : WaiterPoll(c))
    /\ WF_vars(\E ok \in BOOLEAN : InitializeDriveSettles(ok))
    /\ WF_vars(\E c \in Callers, st \in Statuses : OperationSettles(c, st))
    /\ WF_vars(\E c \in Callers, d \in Callers : NestedCallReturns(c, d))

-----------------------------------------------------------------------------
(***************************************************************************)
(*            Playback scheduling of a streaming GeminiLiveService         *)
(*                                                                         *)
(* The inbound side of one instance whose session is Streaming: onmessage  *)
(* with an audio part or with `interrupted`, the continuation after        *)
(* decodeAudioData, source.onended, the microphone blocks going out, and   *)
(* the ways the session ends.  Times are whole units of the output clock.  *)
(* Specification SpecPlay.                                                 *)
(***************************************************************************)
Max(a, b) == IF a >= b THEN a ELSE b

\* Line 224: where the cursor is put when a frame arrives.
PlayAtClock(cursor, clock) == clock
CursorAtArrival(cursor, clock) == Max(cursor, clock)

\* Line 240: the cursor after a source was started at it.
CursorNotAdvanced(cursor, duration) == cursor
CursorAfterStart(cursor, duration) == cursor + duration

\* The fields of a streaming instance that refer to a resource.
Resources ==
    {"session", "processor", "stream", "inputAudioContext", "outputAudioContext"}

\* Partial text is a sequence of characters, a letter or a blank; a message's
\* transcription part carries one character, << >> stands for no such part.
Texts == {<< >>, <<"a">>, <<" ">>}

\* The messages onmessage can be called with: each part of serverContent is
\* there or not (duration 0: no audio part; ok: decodeAudioData will not
\* throw).
Messages ==
    {m \in [inputTranscription : Texts, outputTranscription : Texts,
            turnComplete : BOOLEAN, duration : 0..MaxDuration, ok : BOOLEAN,
            interrupted : BOOLEAN] : m.duration = 0 => m.ok}

\* The messages about playback: no text part and no turn boundary.
AudioMessages ==
    {m \in Messages : /\ m.inputTranscription = << >>
                      /\ m.outputTranscription = << >>
                      /\ ~m.turnComplete}

\* The messages about the transcript: no audio part.
TextMessages == {m \in Messages : m.duration = 0}

\* String.prototype.trim (line 216).
RECURSIVE TrimLeft(_)
TrimLeft(s) == IF s # << >> /\ Head(s) = " " THEN TrimLeft(Tail(s)) ELSE s

RECURSIVE TrimRight(_)
TrimRight(s) ==
    IF s # << >> /\ s[Len(s)] = " "
    THEN TrimRight(SubSeq(s, 1, Len(s) - 1))
    ELSE s

Trim(s) == TrimRight(TrimLeft(s))

\* Lines 206 and 211: `+=` on the accumulator.
Accumulated(current, text) == current \o text

\* Lines 217-218: the accumulator after a turn boundary.
KeptAfterTurn(current) == current
ResetAfterTurn(current) == << >>

\* Line 192: sendRealtimeInput receives the block.
SentFirst(blocks, b) == <<b>> \o blocks
SentNext(blocks, b) == Append(blocks, b)

\* The instance as the handlers below change it.
Session ==
    [isActive |-> playing, resources |-> resources, sources |-> scheduled,
     nextStartTime |-> nextStartTime, speaking |-> speaking]

\* stopAllAudio (lines 292-298).
StopAllSources(p) == [p EXCEPT !.sources = {}, !.nextStartTime = 0]

\* The interrupted branch of onmessage (lines 247-250).
InterruptedKeepsCursor(p) == [p EXCEPT !.sources = {}, !.speaking = FALSE]
InterruptedTearsDown(p) ==
    [StopAllSources(p) EXCEPT !.isActive = FALSE, !.resources = {},
                              !.speaking = FALSE]
Interrupted(p) == [StopAllSources(p) EXCEPT !.speaking = FALSE]

\* cleanup (lines 84-127): every field is reset; the two close() calls it
\* awaits are those of SpecLive.
CleanedUp(p) == [StopAllSources(p) EXCEPT !.isActive = FALSE, !.resources = {}]

\* A handler runs when no continuation of an earlier one is queued: the
\* continuations after decodeAudioData (which awaits nothing itself) and of
\* sessionPromise.then are microtasks.
NoContinuation == pendingFrame = NoFrame /\ pendingSend = 0

InitPlay ==
    /\ gapiInited = FALSE
    /\ initPromise = "null"
    /\ tokenClient = FALSE
    /\ isRefreshingToken = FALSE
    /\ token = 0
    /\ prompts = 0
    /\ callbackOwner = 0
    /\ refreshes = 0
    /\ refreshOutcome = [r \in 1..NCallers |-> "pending"]
    /\ refreshToken = [r \in 1..NCallers |-> 0]
    /\ call = [c \in 1..NCallers |-> NoCall]
    /\ authErrorEvents = 0
    /\ svc = [i \in Inst |-> FreshService]
    /\ activeGlobalService = 0
    /\ globalConnecting = FALSE
    /\ connectAwaits = 0
    /\ tasks = [t \in TaskIds |-> FreeTask]
    /\ streamingAtStart = {}
    /\ stopDuringStart = FALSE
    /\ playing = TRUE
    /\ nextStartTime = 0
    /\ currentTime \in 0..1
    /\ pendingFrame = NoFrame
    /\ scheduled = {}
    /\ speaking = FALSE
    /\ framesSeen = 0
    /\ lastScheduled = NoFrame
    /\ interruptedSince = FALSE
    /\ currentInputTranscription = << >>
    /\ currentOutputTranscription = << >>
    /\ turns = << >>
    /\ resources = Resources
    /\ errorCalls = 0
    /\ returned = "none"
    /\ captured = 0
    /\ pendingSend = 0
    /\ sent = << >>
    /\ self = FreshFields
    /\ contexts = [k \in ConnectIds |-> NoContexts]
    /\ connects = [k \in ConnectIds |-> NoConnect]
    /\ cleanups = [t \in CleanupIds |-> NoCleanup]
    /\ channels = [k \in ConnectIds |-> "none"]
    /\ microtasks = << >>
    /\ callerTask = FALSE
    /\ responses = [n \in Attempts |-> 200]
    /\ answers = [n \in Attempts |-> TRUE]
    /\ hasToken = FALSE
    /\ apiRun = NoRun
    /\ fetchRun = NoRun
    /\ sample = 0
    /\ pcm = 0
    /\ encoded = FALSE
    /\ clamped = 0
    /\ converted = FALSE

\* The output clock advances: the audio thread moves currentTime on whatever
\* the main thread is doing, also between line 224 and line 239.
ClockTicks ==
    /\ UNCHANGED <<driveVars, liveVars, instVars, wrapVars, blobVars>>
    /\ currentTime < MaxClock
    /\ currentTime' = currentTime + 1
    /\ UNCHANGED <<playing, nextStartTime, pendingFrame, scheduled, speaking,
                   framesSeen, lastScheduled, interruptedSince,
                   currentInputTranscription, currentOutputTranscription,
                   turns, resources, errorCalls, returned, captured,
                   pendingSend, sent>>

\* onmessage (lines 201-251) up to its await, or to its end for a message
\* without an audio part: the guard, the two transcriptions, the turn
\* boundary, then either the audio part up to decodeAudioData or the
\* interrupted branch.
OnMessage(m) ==
    /\ UNCHANGED <<driveVars, liveVars, instVars, wrapVars, blobVars>>
    /\ NoContinuation
    /\ framesSeen < MaxFrames
    /\ framesSeen' = framesSeen + 1
    /\ IF ~playing
       THEN UNCHANGED <<playing, nextStartTime, pendingFrame, scheduled,
                        speaking, interruptedSince, currentInputTranscription,
                        currentOutputTranscription, turns, resources>>
       ELSE LET userText == Accumulated(currentInputTranscription,
                                        m.inputTranscription)
                aiText == Accumulated(currentOutputTranscription,
                                      m.outputTranscription)
                audio == m.duration > 0 /\ "outputAudioContext" \in resources
                p == IF audio
                     THEN [Session EXCEPT
                             !.speaking = TRUE,
                             !.nextStartTime = CursorAtArrival(@, currentTime)]
                     ELSE IF m.interrupted THEN Interrupted(Session)
                          ELSE Session
            IN  /\ IF m.turnComplete
                   THEN /\ turns' = Append(turns, <<Trim(userText), Trim(aiText)>>)
                        /\ currentInputTranscription' = ResetAfterTurn(userText)
                        /\ currentOutputTranscription' = ResetAfterTurn(aiText)
                   ELSE /\ turns' = turns
                        /\ currentInputTranscription' = userText
                        /\ currentOutputTranscription' = aiText
                /\ pendingFrame' =
                      IF audio
                      THEN [n |-> framesSeen + 1, duration |-> m.duration,
                            ok |-> m.ok, cursor |-> nextStartTime,
                            clock |-> currentTime, start |-> 0, next |-> 0,
                            at |-> 0, interrupted |-> m.interrupted]
                      ELSE NoFrame
                /\ interruptedSince' =
                      IF ~audio /\ m.interrupted THEN TRUE ELSE interruptedSince
                /\ playing' = p.isActive
                /\ resources' = p.resources
                /\ scheduled' = p.sources
                /\ nextStartTime' = p.nextStartTime
                /\ speaking' = p.speaking
    /\ UNCHANGED <<currentTime, lastScheduled, errorCalls, returned, captured,
                   pendingSend, sent>>

\* onmessage resumes after decodeAudioData (lines 227-250): the source is
\* started at the cursor and the cursor advances by the buffer's duration; a
\* decode that threw schedules nothing; a session no longer active returns
\* (line 228); otherwise the interrupted branch follows.
FrameDecoded ==
    /\ UNCHANGED <<driveVars, liveVars, instVars, wrapVars, blobVars>>
    /\ pendingFrame # NoFrame
    /\ pendingFrame' = NoFrame
    /\ LET f == pendingFrame
           canSchedule == f.ok /\ playing /\ "outputAudioContext" \in resources
           returnsEarly == f.ok /\ ~canSchedule
           src == [n |-> f.n, start |-> nextStartTime, duration |-> f.duration]
           p1 == IF canSchedule
                 THEN [Session EXCEPT
                         !.sources = @ \cup {src},
                         !.nextStartTime = CursorAfterStart(@, f.duration)]
                 ELSE Session
           p2 == IF f.interrupted /\ ~returnsEarly THEN Interrupted(p1) ELSE p1
       IN  /\ lastScheduled' =
                 IF canSchedule
                 THEN [f EXCEPT !.start = nextStartTime,
                                !.next = p1.nextStartTime,
                                !.at = currentTime]
                 ELSE lastScheduled
           /\ interruptedSince' =
                 IF f.interrupted /\ ~returnsEarly THEN TRUE
                 ELSE IF canSchedule THEN FALSE ELSE interruptedSince
           /\ playing' = p2.isActive
           /\ resources' = p2.resources
           /\ scheduled' = p2.sources
           /\ nextStartTime' = p2.nextStartTime
           /\ speaking' = p2.speaking
    /\ UNCHANGED <<currentTime, framesSeen, currentInputTranscription,
                   currentOutputTranscription, turns, errorCalls,
                   returned, captured, pendingSend, sent>>

\* The source of frame n has played to its end: source.onended (lines
\* 234-237).
SourceFinished(n) ==
    /\ UNCHANGED <<driveVars, liveVars, instVars, wrapVars, blobVars>>
    /\ NoContinuation
    /\ \E src \in scheduled :
          /\ src.n = n
          /\ src.start + src.duration <= currentTime
          /\ scheduled' = scheduled \ {src}
    /\ speaking' = IF scheduled' = {} THEN FALSE ELSE speaking
    /\ UNCHANGED <<playing, nextStartTime, currentTime, pendingFrame, framesSeen,
                   lastScheduled, interruptedSince, currentInputTranscription,
                   currentOutputTranscription, turns, resources,
                   errorCalls, returned, captured, pendingSend, sent>>

\* processor.onaudioprocess (lines 187-194) with the next captured block, up
\* to sessionPromise.then; cleanup removes the handler (line 90).
OnAudioProcess ==
    /\ UNCHANGED <<driveVars, liveVars, instVars, wrapVars, blobVars>>
    /\ NoContinuation
    /\ "processor" \in resources
    /\ captured < MaxBlocks
    /\ captured' = captured + 1
    /\ pendingSend' = IF playing /\ "session" \in resources THEN captured + 1 ELSE 0
    /\ UNCHANGED <<playing, nextStartTime, currentTime, pendingFrame, scheduled,
                   speaking, framesSeen, lastScheduled, interruptedSince,
                   currentInputTranscription, currentOutputTranscription,
                   turns, resources, errorCalls, returned, sent>>

\* The callback given to sessionPromise.then (lines 191-193).
SendContinuation ==
    /\ UNCHANGED <<driveVars, liveVars, instVars, wrapVars, blobVars>>
    /\ pendingSend # 0
    /\ pendingSend' = 0
    /\ sent' = IF playing THEN SentNext(sent, pendingSend) ELSE sent
    /\ UNCHANGED <<playing, nextStartTime, currentTime, pendingFrame, scheduled,
                   speaking, framesSeen, lastScheduled, interruptedSince,
                   currentInputTranscription, currentOutputTranscription,
                   turns, resources, errorCalls, returned, captured>>

\* disconnect (lines 300-302, and 345-350 for the exported one): cleanup, and
\* the promise resolves with undefined.
PlaybackStops ==
    /\ UNCHANGED <<driveVars, liveVars, instVars, wrapVars, blobVars>>
    /\ NoContinuation
    /\ returned = "none"
    /\ returned' = "undefined"
    /\ playing' = CleanedUp(Session).isActive
    /\ resources' = CleanedUp(Session).resources
    /\ scheduled' = CleanedUp(Session).sources
    /\ nextStartTime' = CleanedUp(Session).nextStartTime
    /\ speaking' = CleanedUp(Session).speaking
    /\ UNCHANGED <<currentTime, pendingFrame, framesSeen, lastScheduled,
                   interruptedSince, currentInputTranscription,
                   currentOutputTranscription, turns, errorCalls,
                   captured, pendingSend, sent>>

\* onerror (lines 252-256): the error callback, then cleanup.
ChannelError ==
    /\ UNCHANGED <<driveVars, liveVars, instVars, wrapVars, blobVars>>
    /\ NoContinuation
    /\ "session" \in resources
    /\ errorCalls' = errorCalls + 1
    /\ playing' = CleanedUp(Session).isActive
    /\ resources' = CleanedUp(Session).resources
    /\ scheduled' = CleanedUp(Session).sources
    /\ nextStartTime' = CleanedUp(Session).nextStartTime
    /\ speaking' = CleanedUp(Session).speaking
    /\ UNCHANGED <<currentTime, pendingFrame, framesSeen, lastScheduled,
                   interruptedSince, currentInputTranscription,
                   currentOutputTranscription, turns, returned,
                   captured, pendingSend, sent>>

\* onclose (lines 257-260): cleanup (the exported connect gives no onClose).
ChannelClosed ==
    /\ UNCHANGED <<driveVars, liveVars, instVars, wrapVars, blobVars>>
    /\ NoContinuation
    /\ "session" \in resources
    /\ playing' = CleanedUp(Session).isActive
    /\ resources' = CleanedUp(Session).resources
    /\ scheduled' = CleanedUp(Session).sources
    /\ nextStartTime' = CleanedUp(Session).nextStartTime
    /\ speaking' = CleanedUp(Session).speaking
    /\ UNCHANGED <<currentTime, pendingFrame, framesSeen, lastScheduled,
                   interruptedSince, currentInputTranscription,
                   currentOutputTranscription, turns, errorCalls,
                   returned, captured, pendingSend, sent>>

\* The inbound audio of a streaming session.
NextPlay ==
    \/ ClockTicks
    \/ \E m \in AudioMessages : OnMessage(m)
    \/ FrameDecoded
    \/ \E n \in 1..MaxFrames : SourceFinished(n)
    \/ PlaybackStops
    \/ ChannelError
    \/ ChannelClosed

SpecPlay == InitPlay /\ [][NextPlay]_vars

\* The transcript and the outbound audio of a streaming session.
NextTurns ==
    \/ \E m \in TextMessages : OnMessage(m)
    \/ OnAudioProcess
    \/ SendContinuation
    \/ PlaybackStops
    \/ ChannelError
    \/ ChannelClosed

SpecTurns == InitPlay /\ [][NextTurns]_vars

-----------------------------------------------------------------------------
(***************************************************************************)
(*                     Properties of the DriveService                      *)
(***************************************************************************)
ApiCallers == {c \in Callers : call[c].kind = "api"}

\* C1: at most one authorization prompt is outstanding at any time; while it
\* is, the latch is up, exactly one caller (the one whose callback is
\* installed) is its initiator, and every other caller that asked for a token
\* meanwhile is polling, not prompting.
C1_SinglePromptInFlight ==
    /\ prompts <= 1
    /\ prompts = 1 =>
         /\ isRefreshingToken
         /\ {c \in Callers : call[c].pc = "refresh"} = {callbackOwner}
    /\ \A c \in Callers : call[c].pc = "wait" => call[c].joined <= refreshes

\* C1 witness: a prompt is outstanding while another caller, which asked with
\* forcePrompt = true during it, waits.
C1_Witness ==
    /\ prompts = 1
    /\ \E c, d \in Callers :
         /\ c # d
         /\ call[c].pc = "refresh"
         /\ call[d].pc = "wait"
         /\ (call[d].kind = "api" \/ call[d].force)

\* C3: one top-level callDriveApi invokes the operation at most twice and
\* getAccessToken(true) at most once; the second invocation happens exactly
\* when the first failed with 401/403 and the token acquisition resolved.
C3_RetryExactlyOnce ==
    \A c \in ApiCallers :
        /\ call[c].opCalls <= 2
        /\ call[c].tokCalls <= 1
        /\ call[c].retryCount <= MAX_RETRIES
        /\ call[c].pc = "done" =>
             (call[c].opCalls = 2 <=> call[c].tokOut = "resolved")
        /\ call[c].tokCalls = 1 => call[c].opCalls >= 1

\* C3 witness: a call whose retry has also failed with an authorization error.
C3_Witness ==
    \E c \in ApiCallers :
        /\ call[c].pc = "done"
        /\ call[c].opCalls = 2
        /\ call[c].tokCalls = 1
        /\ IsAuthStatus(call[c].lastStatus)

\* C4 (as claimed): every caller of getAccessToken that overlapped a refresh,
\* and only that one, ends with the outcome of that refresh: its token when it
\* succeeded, a rejection when it failed.
C4_CallersShareRefreshOutcome ==
    \A c \in Callers :
        (/\ call[c].joined > 0
         /\ call[c].joined = refreshes
         /\ call[c].tokOut # "none")
        => /\ refreshOutcome[call[c].joined] = "ok" =>
                /\ call[c].tokOut = "resolved"
                /\ call[c].tokVal = refreshToken[call[c].joined]
           /\ refreshOutcome[call[c].joined] = "error" =>
                call[c].tokOut = "rejected"

C7_AuthDeadIsBroadcast ==
    \A c \in ApiCallers : call[c].outcome = "AUTH_DEAD" => showAuthBanner

-----------------------------------------------------------------------------
(***************************************************************************)
(* Properties of the live session (SpecLive).                              *)
(***************************************************************************)

\* Instance record s is active or still has a microphone stream, an audio
\* context or a channel that nobody has asked to stop or close.
Holding(s) ==
    \/ s.isActive
    \/ s.micLive
    \/ s.inState \in {"suspended", "running"}
    \/ s.outState \in {"suspended", "running"}
    \/ s.chan \in {"connecting", "open"}

\* Every handle of instance record s has been released and its field nulled,
\* and nothing is scheduled for playback.  A context or a channel whose
\* close has been requested counts as released.
Released(s) ==
    /\ ~s.processor /\ ~s.procAttached
    /\ ~s.stream /\ ~s.micLive
    /\ ~s.session /\ s.chan \notin {"connecting", "open"}
    /\ ~s.inputAudioContext /\ s.inState \notin {"suspended", "running"}
    /\ ~s.outputAudioContext /\ s.outState \notin {"suspended", "running"}
    /\ s.sources = 0

\* C2: under every interleaving of the exported connect and disconnect, at
\* most one GeminiLiveService instance is active or holds a microphone
\* stream, an audio context or a channel at any time.
C2_AtMostOneSessionHoldsResources ==
    Cardinality({i \in Inst : Holding(svc[i])}) <= 1

\* C5: when an exported connect that started while a session was Streaming,
\* and during which no disconnect was called, completes successfully, exactly
\* one instance is active and every session that was Streaming at its start
\* has released its processor, microphone, channel and both audio contexts.
C5_RestartLeavesOneSession ==
    [][(/\ globalConnecting /\ ~globalConnecting'
        /\ streamingAtStart # {}
        /\ ~stopDuringStart
        /\ connectAwaits # 0
        /\ svc'[connectAwaits].pc = "done")
       => (/\ Cardinality({i \in Inst : svc'[i].isActive}) = 1
           /\ \A i \in streamingAtStart : Released(svc'[i]))]_vars

\* C9: when the promise returned by the exported disconnect resolves, the
\* session it stopped has released and nulled its processor, microphone
\* stream, channel and both audio contexts, and has no playback source left.
C9_StopResolvesAfterRelease ==
    [][\A t \in TaskIds :
          (tasks[t].pc = "done" /\ tasks[t].owner = "mdisc" /\ tasks'[t] = FreeTask)
          => Released(svc'[tasks[t].inst])]_vars

\* C10: in every reachable state, an instance whose isActive is false has no
\* capture processor (the field is null and no node is attached) and no
\* scheduled playback source.
C10_InactiveHasNoAudioGraph ==
    \A i \in Inst :
        ~svc[i].isActive =>
            /\ ~svc[i].processor
            /\ ~svc[i].procAttached
            /\ svc[i].sources = 0

\* A session that was streaming has been torn down: its channel and contexts
\* are closing and it is inactive.
C10_Witness ==
    \E i \in Inst :
        /\ ~svc[i].isActive
        /\ svc[i].pc = "done"
        /\ svc[i].chan = "closing"
        /\ svc[i].inState = "closing"
        /\ ~svc[i].processor /\ ~svc[i].procAttached /\ svc[i].sources = 0

\* C11: once an instance's isActive has flipped to false, no later step of
\* that instance stores a microphone stream or opens a remote channel: a stop
\* that lands while connect() awaits resume() or getUserMedia leaves the
\* instance without stream and without channel afterwards.
C11_NoAcquisitionAfterInactive ==
    [][\A i \in Inst :
          (~svc[i].isActive /\ svc[i].pc \in {"resumeIn", "resumeOut", "gum"})
          => /\ svc'[i].stream => svc[i].stream
             /\ svc'[i].micLive => svc[i].micLive
             /\ svc'[i].chan = svc[i].chan]_vars

\* Instance i is Idle: inactive, its connect() has settled and no cleanup or
\* callback continuation of it is pending.
Idle(i) ==
    /\ ~svc[i].isActive /\ ~svc[i].isConnecting
    /\ svc[i].pc \in {"done", "failed"}
    /\ ~svc[i].openThen /\ svc[i].decoding = 0
    /\ \A t \in TaskIds : tasks[t].pc # "free" => tasks[t].inst # i

\* C12: a session torn down before its channel handshake completed does not
\* keep the channel: once the session is Idle its remote channel is not open.
C12_IdleSessionHasNoOpenChannel ==
    \A i \in Inst : Idle(i) => svc[i].chan # "open"

\* A cleanup is suspended on the close() of an audio context.
TeardownInProgress ==
    \E t \in TaskIds : tasks[t].pc \in {"awaitIn", "awaitOut"}

\* C13: an exported connect that arrives while an earlier start holds the
\* connecting latch, or while a teardown is in progress, is a no-op: it
\* changes nothing of the module or of any instance.
C13_StartDuringStartOrTeardownIsNoOp ==
    [][(ModuleConnect /\ (globalConnecting \/ TeardownInProgress))
       => UNCHANGED liveVars]_vars

\* C17: if microphone permission is denied or an acquisition step of
\* connect() throws, connect() rejects and the session is Idle: isActive and
\* isConnecting are false and every audio context or stream acquired before
\* the failure has been closed and nulled.
C17_FailedConnectEndsIdle ==
    \A i \in Inst :
        svc[i].pc = "failed" =>
            /\ ~svc[i].isActive
            /\ ~svc[i].isConnecting
            /\ Released(svc[i])

\* A connect() has rejected after both audio contexts had been created: they
\* are closed now.
C17_Witness ==
    \E i \in Inst :
        /\ svc[i].pc = "failed"
        /\ ~svc[i].stream /\ ~svc[i].micLive
        /\ svc[i].inState = "closed"
        /\ svc[i].outState = "closed"
        /\ ~svc[i].inputAudioContext /\ ~svc[i].outputAudioContext

\* C18: teardown is idempotent: whatever state an instance is in, a cleanup
\* invoked again after a cleanup leaves the instance exactly as the first one
\* left it, and after a teardown that ran to its end the second one returns
\* at once.
C18_TeardownIdempotent ==
    \A i \in Inst : \A ch \in ChoicesFor(svc[i]) :
        LET first == Cleanup(svc[i], ch) IN
        \A ch2 \in ChoicesFor(first.s) :
            LET second == Cleanup(first.s, ch2) IN
            /\ second.s = first.s
            /\ first.pc = "done" => second.pc = "done"

\* An exported disconnect has run its cleanup to the end on an instance that
\* onclose had already torn down: the instance is released.
C18_Witness ==
    \E t \in TaskIds :
        /\ tasks[t].pc = "done"
        /\ tasks[t].owner = "mdisc"
        /\ svc[tasks[t].inst].chan = "closed"
        /\ svc[tasks[t].inst].inState = "closed"
        /\ Released(svc[tasks[t].inst])

\* C19: a channel-level error leads to the error callback being called and to
\* the full teardown of the session, and afterwards the instance never opens
\* a channel again nor acquires an audio resource again: from the error on it
\* is inactive, without processor, stream, session or scheduled source, its
\* channel is over, and once it is Idle both audio contexts are released.
C19_ChannelErrorTearsDownForGood ==
    \A i \in Inst :
        /\ svc[i].chan = "failed" => svc[i].errorReported
        /\ svc[i].errorReported =>
              /\ ~svc[i].isActive
              /\ ~svc[i].processor /\ ~svc[i].procAttached
              /\ ~svc[i].stream /\ ~svc[i].micLive
              /\ ~svc[i].session
              /\ svc[i].sources = 0
              /\ svc[i].chan \in {"failed", "closed"}
              /\ Idle(i) => Released(svc[i])

\* A session whose channel reported an error has been torn down to the end.
C19_Witness ==
    \E i \in Inst :
        /\ svc[i].errorReported
        /\ Idle(i)
        /\ svc[i].inState = "closed" /\ svc[i].outState = "closed"
        /\ Released(svc[i])

-----------------------------------------------------------------------------
(***************************************************************************)
(* Further properties of the DriveService (SpecDrive, SpecDriveFair).      *)
(***************************************************************************)

\* C14: every getAccessToken call eventually settles, the refresh itself as
\* well as a caller waiting on a refresh in progress, even if the prompt is
\* never answered.
C14_TokenCallEventuallySettles ==
    \A c \in Callers :
        (call[c].pc \in {"refresh", "wait"}) ~> (call[c].pc \notin {"refresh", "wait"})

\* C15: when the user declines the authorization prompt, by an error response
\* or by closing it, the getAccessToken call that showed it fails with the
\* session-expired error ("AUTH_DEAD"), not with a generic one, and the
\* refresh-in-progress flag is cleared.
C15_DeclinedPromptIsSessionExpired ==
    (refreshes > 0 /\ refreshOutcome[refreshes] \in {"error", "closed"})
    => /\ ~isRefreshingToken
       /\ call[callbackOwner].tokOut = "rejected"
       /\ call[callbackOwner].tokErr = "AUTH_DEAD"

\* C16: whenever a token is stored and forcePrompt is false, getAccessToken
\* returns that token at once, without a prompt and without waiting, also
\* while another caller's refresh is in progress.
C16_StoredTokenReturnedImmediately ==
    [][\A c \in Callers :
          (CallGetAccessToken(c, FALSE) /\ token # 0)
          => /\ call'[c].pc = "done"
             /\ call'[c].tokOut = "resolved"
             /\ call'[c].tokVal = token
             /\ prompts' = prompts]_vars

-----------------------------------------------------------------------------
(***************************************************************************)
(* Properties of the playback scheduling (SpecPlay).                       *)
(***************************************************************************)

\* C20: every inbound audio frame processed while the session is active is
\* started at max(nextStartTime, output clock time), both taken when the
\* frame arrived, and right after it is scheduled (line 240) nextStartTime
\* equals that start time plus the frame's duration; it still does when the
\* handler returns, unless the frame's own message carried `interrupted`.
C20_FrameStartsAtMaxOfCursorAndClock ==
    [][lastScheduled' # lastScheduled
       => /\ lastScheduled'.start = Max(lastScheduled'.cursor, lastScheduled'.clock)
          /\ lastScheduled'.next = lastScheduled'.start + lastScheduled'.duration
          /\ ~lastScheduled'.interrupted
                => nextStartTime' = lastScheduled'.next]_vars

\* A frame that arrived while an earlier one was still to play has been
\* scheduled behind it, and another has been scheduled at the clock.
C20_Witness ==
    /\ lastScheduled # NoFrame
    /\ lastScheduled.cursor > lastScheduled.clock
    /\ lastScheduled.clock > 0
    /\ lastScheduled.start = lastScheduled.cursor
    /\ nextStartTime = lastScheduled.start + lastScheduled.duration

\* C21 as claimed: two inbound frames scheduled one after the other, with no
\* interruption between them, are gapless: the later one starts where the
\* earlier one ends.
C21_GaplessAsClaimed ==
    [][(/\ lastScheduled' # lastScheduled
        /\ lastScheduled # NoFrame
        /\ ~interruptedSince)
       => lastScheduled'.start = lastScheduled.start + lastScheduled.duration]_vars

\* C21 as amended: with no interruption between them, the later of two
\* consecutive frames starts at the end of the earlier one or at the output
\* clock time of its own arrival, whichever is later; so the start times are
\* non-decreasing, and gapless whenever the frame arrives before the earlier
\* one has ended.
C21_GaplessUnlessLate ==
    [][(/\ lastScheduled' # lastScheduled
        /\ lastScheduled # NoFrame
        /\ ~interruptedSince)
       => LET end == lastScheduled.start + lastScheduled.duration
          IN  /\ lastScheduled'.start = Max(end, lastScheduled'.clock)
              /\ lastScheduled'.start >= lastScheduled.start
              /\ lastScheduled'.clock <= end
                    => lastScheduled'.start = end]_vars

\* A frame that arrived after the frame before it had ended (no interruption
\* since) has been scheduled at the clock, behind a gap.
C21_Witness ==
    /\ lastScheduled # NoFrame
    /\ ~interruptedSince
    /\ lastScheduled.cursor > 0
    /\ lastScheduled.clock > lastScheduled.cursor
    /\ lastScheduled.start = lastScheduled.clock

\* C22: absent an interruption consecutive frames do not overlap (the later
\* one starts no earlier than the earlier one ends), and no frame is given a
\* start time earlier than the output clock time at which source.start is
\* called for it.
C22_NoOverlapAndNotInThePast ==
    [][lastScheduled' # lastScheduled
       => /\ (lastScheduled # NoFrame /\ ~interruptedSince)
                => lastScheduled'.start
                      >= lastScheduled.start + lastScheduled.duration
          /\ lastScheduled'.start >= lastScheduled'.at]_vars

\* C23: an interruption empties the set of scheduled sources, also of the
\* frame its own message carried (decoded after the message was received),
\* and leaves the cursor no later than the clock; the next frame scheduled
\* after it starts at the output clock time of its arrival, which is not in
\* the future.
C23_InterruptionClearsAndResets ==
    [][/\ \A m \in AudioMessages :
             (playing /\ m.interrupted /\ m.duration = 0 /\ OnMessage(m))
                => scheduled' = {} /\ nextStartTime' <= currentTime'
       /\ (playing /\ pendingFrame.interrupted /\ FrameDecoded)
             => scheduled' = {} /\ nextStartTime' <= currentTime'
       /\ (lastScheduled' # lastScheduled /\ interruptedSince)
             => /\ lastScheduled'.start = lastScheduled'.clock
                /\ lastScheduled'.start <= lastScheduled'.at]_vars

\* An interruption has stopped a frame whose end was still to come.
C23_Witness ==
    /\ playing
    /\ interruptedSince
    /\ scheduled = {}
    /\ nextStartTime = 0
    /\ lastScheduled # NoFrame
    /\ ~lastScheduled.interrupted
    /\ lastScheduled.start + lastScheduled.duration > currentTime

-----------------------------------------------------------------------------
(***************************************************************************)
(* Properties of the transcript and the outbound audio (SpecTurns).        *)
(***************************************************************************)

\* C24: a message that carries only `interrupted`, received by an active
\* session, leaves isActive true, every resource field as it was, both
\* transcript accumulators as they were, and calls no error callback.
C24_InterruptionKeepsSession ==
    [][\A m \in TextMessages :
          (/\ playing
           /\ m.interrupted
           /\ m.inputTranscription = << >>
           /\ m.outputTranscription = << >>
           /\ ~m.turnComplete
           /\ OnMessage(m))
          => /\ playing'
             /\ resources' = resources
             /\ currentInputTranscription' = currentInputTranscription
             /\ currentOutputTranscription' = currentOutputTranscription
             /\ turns' = turns
             /\ errorCalls' = errorCalls]_vars

\* A session that has been interrupted is running with its resources and
\* with partial text of both roles.
C24_Witness ==
    /\ interruptedSince
    /\ playing
    /\ resources = Resources
    /\ errorCalls = 0
    /\ framesSeen = 3
    /\ Len(currentInputTranscription) = 2
    /\ Len(currentOutputTranscription) = 2

\* The partial text the accumulators hold, as a turn would carry it.
PartialTexts ==
    {t \in {Trim(currentInputTranscription), Trim(currentOutputTranscription)} :
        t # << >>}

\* The texts the caller has been given as final turns: those of the
\* onTurnComplete calls, of which useChat keeps the non-empty ones (part_013
\* lines 97-107), and those of the transcript disconnect() resolved with,
\* which is undefined.
FinalTexts ==
    ({turns[k][1] : k \in 1..Len(turns)} \cup {turns[k][2] : k \in 1..Len(turns)}
        \cup (IF returned \in {"none", "undefined"} THEN {} ELSE returned))
    \ {<< >>}

\* C25: once disconnect() has resolved, the partial text either role had
\* when it was called is among the final turns given to the caller, and no
\* empty text is.
C25_StopFlushesPartialText ==
    returned # "none" => PartialTexts \subseteq FinalTexts /\ << >> \notin FinalTexts

\* C26: once a channel error has ended the session, the caller has been
\* given everything that had accumulated: the finalized turns and the
\* partial text of either role.
C26_ErrorDeliversTranscript ==
    errorCalls > 0 => ~playing /\ PartialTexts \subseteq FinalTexts

\* C27: in an active session a message without a turn boundary appends its
\* text to the accumulator of its role and to nothing else; a message with a
\* turn boundary calls onTurnComplete once, with what each accumulator holds
\* followed by the message's own text for that role (white space trimmed at
\* both ends), and leaves both accumulators empty.
C27_TurnsAccumulateAndReset ==
    [][\A m \in TextMessages :
          (playing /\ framesSeen' # framesSeen /\ OnMessage(m))
          => LET userText == currentInputTranscription \o m.inputTranscription
                 aiText == currentOutputTranscription \o m.outputTranscription
             IN  IF m.turnComplete
                 THEN /\ turns' = turns \o << <<Trim(userText), Trim(aiText)>> >>
                      /\ currentInputTranscription' = << >>
                      /\ currentOutputTranscription' = << >>
                 ELSE /\ turns' = turns
                      /\ currentInputTranscription' = userText
                      /\ currentOutputTranscription' = aiText]_vars

\* One turn has been emitted from three messages, the last of them the
\* boundary carrying text itself; the two roles got different texts.
C27_Witness ==
    /\ framesSeen = 3
    /\ turns = << << <<"a", " ", "a">>, <<"a">> >> >>
    /\ currentInputTranscription = << >>
    /\ currentOutputTranscription = << >>

\* C28: the blocks given to sendRealtimeInput are the captured blocks, each
\* once and in capture order (the last one may still be queued behind
\* sessionPromise.then), and nothing is sent by an inactive session.
C28_BlocksSentOnceInOrder ==
    [][/\ sent' = [k \in 1..(captured' - (IF pendingSend' # 0 THEN 1 ELSE 0)) |-> k]
       /\ pendingSend' # 0 => pendingSend' = captured'
       /\ ~playing => sent' = sent]_vars

\* Two blocks were captured and sent, and the session has ended since.
C28_Witness ==
    /\ sent = <<1, 2>>
    /\ captured = 2
    /\ pendingSend = 0
    /\ ~playing

-----------------------------------------------------------------------------
(***************************************************************************)
(* Further properties of callDriveApi (SpecDrive).                         *)
(***************************************************************************)

\* C29: a call whose retry attempt (the one after a successful refresh)
\* failed with a status that is not 401 or 403 raises the error of that
\* status: RATE_LIMIT_EXCEEDED for 429, the operation's own error otherwise,
\* as a first attempt does, and not AUTH_DEAD.
C29_RetryErrorKeepsItsClass ==
    \A c \in ApiCallers :
        (/\ call[c].pc = "done"
         /\ call[c].opCalls = 2
         /\ ~IsAuthStatus(call[c].lastStatus)
         /\ call[c].lastStatus # 200)
        => call[c].outcome = (IF IsRateLimitStatus(call[c].lastStatus)
                              THEN "RATE_LIMIT_EXCEEDED"
                              ELSE "ERROR")

\* C30: a callDriveApi on an initialised service starts no token
\* acquisition and changes neither the stored token nor the refresh latch
\* when it is called; when its operation then succeeds at the first attempt
\* the call returns the operation's result, the operation has been invoked
\* once, and still no acquisition, token change or latch change was made by
\* the call.
C30_FirstSuccessIsPassthrough ==
    [][\A c \in Callers :
          /\ (gapiInited /\ CallDriveApi(c))
                => /\ call'[c].pc = "op"
                   /\ call'[c].opCalls = 0
                   /\ call'[c].tokCalls = 0
                   /\ UNCHANGED <<token, isRefreshingToken, prompts, refreshes>>
          /\ (call[c].opCalls = 0 /\ OperationSettles(c, 200))
                => /\ call'[c].pc = "done"
                   /\ call'[c].outcome = "RESULT"
                   /\ call'[c].opCalls = 1
                   /\ call'[c].tokCalls = 0
                   /\ call'[c].retryCount = 0
                   /\ UNCHANGED <<token, isRefreshingToken, prompts,
                                  refreshes>>]_vars

\* A call has returned its operation's result at the first attempt while the
\* other caller's refresh was in flight.
C30_Witness ==
    \E c \in ApiCallers :
        /\ call[c].pc = "done"
        /\ call[c].outcome = "RESULT"
        /\ call[c].opCalls = 1
        /\ call[c].tokCalls = 0
        /\ isRefreshingToken

\* C31: the stored token changes only in the step in which a refresh
\* succeeds; a refresh that ends without success (an error response, or the
\* prompt closed) leaves the token as it was and the latch down; and no step
\* of callDriveApi itself (its call, its operation settling, a nested call
\* returning) writes the token.
C31_TokenWrittenOnlyBySuccessfulRefresh ==
    [][/\ token' # token
          => /\ refreshOutcome[refreshes] = "pending"
             /\ refreshOutcome'[refreshes] = "ok"
             /\ token' = refreshToken'[refreshes]
       /\ \A r \in 1..NCallers :
             (refreshOutcome[r] = "pending"
                /\ refreshOutcome'[r] \in {"error", "closed"})
             => token' = token /\ ~isRefreshingToken'
       /\ \A c \in Callers :
             (call[c].kind = "api" /\ call'[c] # call[c]
                /\ call[c].pc \in {"op", "nested", "init"})
             => token' = token]_vars

\* C32: when the callDriveApi nested in the operation of an outer
\* callDriveApi has raised AUTH_DEAD, the outer call ends at once with that
\* error: it starts no token acquisition, shows no prompt, and its operation
\* is not invoked again.
C32_InnerAuthDeadNotRetried ==
    [][\A c \in Callers :
          /\ \A d \in Callers :
                (/\ call[c].pc = "nested"
                 /\ call[c].inner = d
                 /\ call[d].pc = "done"
                 /\ call[d].outcome = "AUTH_DEAD"
                 /\ NestedCallReturns(c, d))
                => /\ call'[c].pc = "done"
                   /\ call'[c].outcome = "AUTH_DEAD"
                   /\ call'[c].tokCalls = call[c].tokCalls
                   /\ call'[c].opCalls = call[c].opCalls + 1
                   /\ UNCHANGED <<prompts, refreshes, isRefreshingToken, token>>
          /\ call[c].innerOutcome = "AUTH_DEAD"
                => /\ call[c].pc = "done"
                   /\ call'[c] = call[c]]_vars

\* An outer call has ended with the AUTH_DEAD of its nested call, after one
\* invocation of its operation and without asking for a token itself.
C32_Witness ==
    \E c \in ApiCallers :
        /\ call[c].pc = "done"
        /\ call[c].innerOutcome = "AUTH_DEAD"
        /\ call[c].outcome = "AUTH_DEAD"
        /\ call[c].opCalls = 1
        /\ call[c].tokCalls = 0

\* C38: the reported speaking state tracks playback: whenever no source is
\* scheduled and no inbound frame awaits its decode, the last value given to
\* onModelSpeakingChange is false, also after a frame whose decode failed,
\* after an interruption and after teardown.
C38_SpeakingTracksPlayback ==
    (scheduled = {} /\ pendingFrame = NoFrame) => ~speaking

-----------------------------------------------------------------------------
(***************************************************************************)
(* Further properties of the live session (SpecLive).                      *)
(***************************************************************************)

\* C34: every instance that is active or holds resources is the one that
\* activeGlobalService refers to, so that a later disconnect tears it down,
\* and an exported disconnect that resumes late never clears the reference to
\* an instance other than the one it stopped.
C34_ActiveInstanceIsReferenced ==
    [][/\ \A i \in Inst : Holding(svc'[i]) => i = activeGlobalService'
       /\ \A t \in TaskIds :
             (/\ tasks[t].pc = "done" /\ tasks[t].owner = "mdisc"
              /\ tasks'[t] = FreeTask
              /\ activeGlobalService # tasks[t].inst)
             => activeGlobalService' = activeGlobalService]_vars

\* An exported connect is executing: it awaits the old session's disconnect
\* or the new instance's connect().
ModuleConnectExecuting ==
    \/ connectAwaits # 0
    \/ \E t \in TaskIds : tasks[t].pc # "free" /\ tasks[t].owner = "mconn"

\* connect() of instance i is executing (lines 135-277).
ConnectExecuting(i) ==
    svc[i].pc \in {"cleanup", "resumeIn", "resumeOut", "gum", "catch"}

\* C36: both start latches are released whenever no connect call is
\* executing, also after a connect that threw: globalConnecting is false when
\* no exported connect is executing, and isConnecting of an instance is false
\* when its connect() is not executing.
C36_LatchesReleased ==
    /\ ~ModuleConnectExecuting => ~globalConnecting
    /\ \A i \in Inst : ~ConnectExecuting(i) => ~svc[i].isConnecting

\* A connect() has thrown (the microphone was denied after both contexts had
\* been created), the exported connect has returned, and both latches are
\* down.
C36_Witness ==
    /\ ~ModuleConnectExecuting
    /\ ~globalConnecting
    /\ \E i \in Inst :
          /\ svc[i].pc = "failed"
          /\ svc[i].inState \in {"closing", "closed"}
          /\ ~svc[i].isConnecting

-----------------------------------------------------------------------------
(***************************************************************************)
(*        createBlob and convertFloat32ToInt16: float to 16-bit PCM        *)
(*                                                                         *)
(* A sample is the rational sample / SampleScale, so that the samples      *)
(* range over [-1.0, 1.0] in steps of 1 / SampleScale.                     *)
(***************************************************************************)
Min(a, b) == IF a <= b THEN a ELSE b

\* The integer part of num / den (den > 0), rounded toward zero: the first
\* step of storing a number into an Int16Array.
Truncated(num, den) ==
    IF num >= 0 THEN num \div den ELSE 0 - ((0 - num) \div den)

\* The second step: the integer modulo 2^16, read as a signed 16-bit value.
ToInt16(n) ==
    LET m == n % 65536 IN IF m >= 32768 THEN m - 65536 ELSE m

\* createBlob, line 284: int16[i] = data[i] * 32768.
createBlob(k) == ToInt16(Truncated(k * 32768, SampleScale))

\* convertFloat32ToInt16, line 594:
\* buf[l] = Math.max(-1, Math.min(1, val)) * 0x7FFF.
convertFloat32ToInt16(k) ==
    ToInt16(Truncated(Max(0 - SampleScale, Min(SampleScale, k)) * 32767,
                      SampleScale))

Sign(n) == IF n > 0 THEN 1 ELSE IF n < 0 THEN 0 - 1 ELSE 0

\* One sample of a captured block, anywhere in [-1.0, 1.0].
InitBlob ==
    /\ gapiInited = FALSE
    /\ initPromise = "null"
    /\ tokenClient = FALSE
    /\ isRefreshingToken = FALSE
    /\ token = 0
    /\ prompts = 0
    /\ callbackOwner = 0
    /\ refreshes = 0
    /\ refreshOutcome = [r \in 1..NCallers |-> "pending"]
    /\ refreshToken = [r \in 1..NCallers |-> 0]
    /\ call = [c \in 1..NCallers |-> NoCall]
    /\ authErrorEvents = 0
    /\ svc = [i \in Inst |-> FreshService]
    /\ activeGlobalService = 0
    /\ globalConnecting = FALSE
    /\ connectAwaits = 0
    /\ tasks = [t \in TaskIds |-> FreeTask]
    /\ streamingAtStart = {}
    /\ stopDuringStart = FALSE
    /\ playing = FALSE
    /\ nextStartTime = 0
    /\ currentTime = 0
    /\ pendingFrame = NoFrame
    /\ scheduled = {}
    /\ speaking = FALSE
    /\ framesSeen = 0
    /\ lastScheduled = NoFrame
    /\ interruptedSince = FALSE
    /\ currentInputTranscription = << >>
    /\ currentOutputTranscription = << >>
    /\ turns = << >>
    /\ resources = {}
    /\ errorCalls = 0
    /\ returned = "none"
    /\ captured = 0
    /\ pendingSend = 0
    /\ sent = << >>
    /\ self = FreshFields
    /\ contexts = [k \in ConnectIds |-> NoContexts]
    /\ connects = [k \in ConnectIds |-> NoConnect]
    /\ cleanups = [t \in CleanupIds |-> NoCleanup]
    /\ channels = [k \in ConnectIds |-> "none"]
    /\ microtasks = << >>
    /\ callerTask = FALSE
    /\ responses = [n \in Attempts |-> 200]
    /\ answers = [n \in Attempts |-> TRUE]
    /\ hasToken = FALSE
    /\ apiRun = NoRun
    /\ fetchRun = NoRun
    /\ sample \in (0 - SampleScale)..SampleScale
    /\ pcm = 0
    /\ encoded = FALSE
    /\ clamped = 0
    /\ converted = FALSE

\* createBlob converts the sample (lines 280-285).
CreateBlob ==
    /\ UNCHANGED <<driveVars, liveVars, playVars, instVars, wrapVars>>
    /\ ~encoded
    /\ pcm' = createBlob(sample)
    /\ encoded' = TRUE
    /\ UNCHANGED <<sample, clamped, converted>>

\* convertFloat32ToInt16 converts the same sample (lines 589-597).
ConvertFloat32ToInt16 ==
    /\ UNCHANGED <<driveVars, liveVars, playVars, instVars, wrapVars>>
    /\ ~converted
    /\ clamped' = convertFloat32ToInt16(sample)
    /\ converted' = TRUE
    /\ UNCHANGED <<sample, pcm, encoded>>

NextBlob ==
    \/ CreateBlob
    \/ ConvertFloat32ToInt16

SpecBlob == InitBlob /\ [][NextBlob]_vars

\* C39: createBlob's conversion does not wrap: for every sample in
\* [-1.0, 1.0] the 16-bit value it encodes lies in [-32768, 32767] and has
\* the sign of the sample, as the value of convertFloat32ToInt16 for the same
\* sample does.
C39_CreateBlobDoesNotWrap ==
    /\ encoded => /\ pcm \in (0 - 32768)..32767
                  /\ Sign(pcm) = Sign(sample)
    /\ converted => /\ clamped \in (0 - 32768)..32767
                    /\ Sign(clamped) = Sign(sample)

-----------------------------------------------------------------------------
(***************************************************************************)
(*      callDriveApi and fetchWithAuth run against the same script         *)
(*                                                                         *)
(* Each wrapper runs alone on an initialised service: its n-th request is  *)
(* answered with responses[n], its n-th token prompt with answers[n].      *)
(***************************************************************************)
WrapperStatuses == {200, 401, 403, 429}

\* The run's view of window.gapi.client.getToken() (line 210).
Stored(run) == hasToken \/ run.token

\* A script for both wrappers.
InitWrappers ==
    /\ gapiInited = FALSE
    /\ initPromise = "null"
    /\ tokenClient = FALSE
    /\ isRefreshingToken = FALSE
    /\ token = 0
    /\ prompts = 0
    /\ callbackOwner = 0
    /\ refreshes = 0
    /\ refreshOutcome = [r \in 1..NCallers |-> "pending"]
    /\ refreshToken = [r \in 1..NCallers |-> 0]
    /\ call = [c \in 1..NCallers |-> NoCall]
    /\ authErrorEvents = 0
    /\ svc = [i \in Inst |-> FreshService]
    /\ activeGlobalService = 0
    /\ globalConnecting = FALSE
    /\ connectAwaits = 0
    /\ tasks = [t \in TaskIds |-> FreeTask]
    /\ streamingAtStart = {}
    /\ stopDuringStart = FALSE
    /\ playing = FALSE
    /\ nextStartTime = 0
    /\ currentTime = 0
    /\ pendingFrame = NoFrame
    /\ scheduled = {}
    /\ speaking = FALSE
    /\ framesSeen = 0
    /\ lastScheduled = NoFrame
    /\ interruptedSince = FALSE
    /\ currentInputTranscription = << >>
    /\ currentOutputTranscription = << >>
    /\ turns = << >>
    /\ resources = {}
    /\ errorCalls = 0
    /\ returned = "none"
    /\ captured = 0
    /\ pendingSend = 0
    /\ sent = << >>
    /\ self = FreshFields
    /\ contexts = [k \in ConnectIds |-> NoContexts]
    /\ connects = [k \in ConnectIds |-> NoConnect]
    /\ cleanups = [t \in CleanupIds |-> NoCleanup]
    /\ channels = [k \in ConnectIds |-> "none"]
    /\ microtasks = << >>
    /\ callerTask = FALSE
    /\ responses \in [Attempts -> WrapperStatuses]
    /\ answers \in [Attempts -> BOOLEAN]
    /\ hasToken \in BOOLEAN
    /\ apiRun = NoRun
    /\ fetchRun = NoRun
    /\ sample = 0
    /\ pcm = 0
    /\ encoded = FALSE
    /\ clamped = 0
    /\ converted = FALSE

\* callDriveApi: the operation settles (lines 171-199).
ApiAttempt ==
    /\ UNCHANGED <<driveVars, liveVars, playVars, instVars, blobVars>>
    /\ apiRun.pc \in {"start", "op"}
    /\ LET st == responses[apiRun.attempts + 1]
           r == [apiRun EXCEPT !.attempts = @ + 1] IN
       apiRun' =
          IF st = 200
          THEN OperationResult(r)
          ELSE IF IsAuthStatus(st)
          THEN IF RetryBudgetRemains(r.retryCount)
               THEN [r EXCEPT !.pc = "refresh", !.acquisitions = @ + 1]
               ELSE Done(r, Thrown(r.retryCount, "AUTH_DEAD"))
          ELSE IF IsRateLimitStatus(st)
          THEN Done(r, Thrown(r.retryCount, "RATE_LIMIT_EXCEEDED"))
          ELSE Done(r, Thrown(r.retryCount, "ERROR"))
    /\ UNCHANGED <<responses, answers, hasToken, fetchRun>>

\* callDriveApi: getAccessToken(true) settles (lines 181-186).
ApiRefreshSettles ==
    /\ UNCHANGED <<driveVars, liveVars, playVars, instVars, blobVars>>
    /\ apiRun.pc = "refresh"
    /\ LET r == [apiRun EXCEPT !.prompts = @ + 1] IN
       apiRun' = IF answers[r.prompts]
                 THEN [r EXCEPT !.pc = "op", !.retryCount = @ + 1,
                                !.token = TRUE]
                 ELSE Done(r, "AUTH_DEAD")
    /\ UNCHANGED <<responses, answers, hasToken, fetchRun>>

\* fetchWithAuth is entered (lines 205-214): without a stored token it calls
\* getAccessToken() first.
FetchStarts ==
    /\ UNCHANGED <<driveVars, liveVars, playVars, instVars, blobVars>>
    /\ fetchRun.pc = "start"
    /\ fetchRun' = IF Stored(fetchRun)
                   THEN [fetchRun EXCEPT !.pc = "fetch"]
                   ELSE [fetchRun EXCEPT !.pc = "acquire", !.acquisitions = @ + 1]
    /\ UNCHANGED <<responses, answers, hasToken, apiRun>>

\* fetchWithAuth: that getAccessToken() settles (lines 211-214); its
\* rejection is outside any try block and reaches the caller as it is.
FetchAcquireSettles ==
    /\ UNCHANGED <<driveVars, liveVars, playVars, instVars, blobVars>>
    /\ fetchRun.pc = "acquire"
    /\ LET r == [fetchRun EXCEPT !.prompts = @ + 1] IN
       fetchRun' = IF answers[r.prompts]
                   THEN [r EXCEPT !.pc = "fetch", !.token = TRUE]
                   ELSE Done(r, "ERROR")
    /\ UNCHANGED <<responses, answers, hasToken, apiRun>>

\* fetchWithAuth: fetch settles with a response (lines 219-243).  What the
\* retry frame throws is not caught by the first frame, which returns the
\* retry's promise without awaiting it (line 227).
FetchAttempt ==
    /\ UNCHANGED <<driveVars, liveVars, playVars, instVars, blobVars>>
    /\ fetchRun.pc = "fetch"
    /\ LET st == responses[fetchRun.attempts + 1]
           r == [fetchRun EXCEPT !.attempts = @ + 1] IN
       fetchRun' =
          IF st = 401
          THEN IF RetryBudgetRemains(r.retryCount)
               THEN [r EXCEPT !.pc = "refresh", !.acquisitions = @ + 1]
               ELSE Done(r, "AUTH_DEAD")
          ELSE IF st = 403 \/ st = 429
          THEN Done(r, "RATE_LIMIT_EXCEEDED")
          ELSE OperationResult(r)
    /\ UNCHANGED <<responses, answers, hasToken, apiRun>>

\* fetchWithAuth: getAccessToken(true) settles (lines 225-231).
FetchRefreshSettles ==
    /\ UNCHANGED <<driveVars, liveVars, playVars, instVars, blobVars>>
    /\ fetchRun.pc = "refresh"
    /\ LET r == [fetchRun EXCEPT !.prompts = @ + 1] IN
       fetchRun' = IF answers[r.prompts]
                   THEN [r EXCEPT !.pc = "start", !.retryCount = @ + 1,
                                  !.token = TRUE]
                   ELSE Done(r, "AUTH_DEAD")
    /\ UNCHANGED <<responses, answers, hasToken, apiRun>>

NextWrappers ==
    \/ ApiAttempt
    \/ ApiRefreshSettles
    \/ FetchStarts
    \/ FetchAcquireSettles
    \/ FetchAttempt
    \/ FetchRefreshSettles

SpecWrappers == InitWrappers /\ [][NextWrappers]_vars

\* C37: the two wrappers implement one policy: run against the same
\* responses and the same refresh outcomes, callDriveApi and fetchWithAuth
\* make the same number of attempts and of token acquisitions and end in the
\* same outcome class.
C37_WrappersAgree ==
    (apiRun.pc = "done" /\ fetchRun.pc = "done")
        => /\ apiRun.attempts = fetchRun.attempts
           /\ apiRun.acquisitions = fetchRun.acquisitions
           /\ apiRun.outcome = fetchRun.outcome

-----------------------------------------------------------------------------
(***************************************************************************)
(*   One GeminiLiveService used through its own connect() and disconnect() *)
(*                                                                         *)
(* The class is exported and its connect() guards itself (line 130), so    *)
(* connect() can be called again on an instance, at any time.  Here the    *)
(* AudioContexts have an identity: a context field holds the number of the *)
(* connect() call that created the context, so that one can tell which     *)
(* context a cleanup closes or drops.  The processor, the session and the  *)
(* playback sources are nulled before cleanup's first await and are left   *)
(* out.  Continuations run in the order they were queued, before any       *)
(* event; the code that calls connect() or disconnect() may make several   *)
(* calls in a row before it yields.                                        *)
(***************************************************************************)
\* connect() call k is between its guard and the end of its acquisition.
Acquiring(k) == connects[k].pc \in {"cleanup", "ready", "gum"}

\* The continuation of connect() call k, and of the cleanup in slot t.
ConnectTask(k) == [kind |-> "connect", id |-> k]
CleanupTask(t) == [kind |-> "cleanup", id |-> t]

\* An event (a timer, the browser, the network) is delivered only when no
\* continuation is queued.
MicroPendingInstance == microtasks # << >>

\* cleanup, line 126, and its return; c is the cleanup's record.  The
\* connect() call that awaits it (line 137 or 273) is queued to go on.
CleanupReturns(f, ctxs, c, cn, q) ==
    [f |-> [f EXCEPT !.sessionPromise = 0],
     ctxs |-> ctxs,
     c |-> [c EXCEPT !.pc = "returned"],
     cn |-> IF c.owner = 0
            THEN cn
            ELSE [cn EXCEPT ![c.owner].pc = IF @ = "cleanup" THEN "ready"
                                                             ELSE "caught"],
     q |-> IF c.owner = 0 THEN q ELSE Append(q, ConnectTask(c.owner))]

\* await x.close() in the cleanup of slot t, on a context whose state is not
\* 'closed' (lines 113-114, 120-121).  A context that is already closing
\* either rejects the second close() at once, and the cleanup is queued to
\* go on, or settles it when it has closed.
AwaitClose(f, ctxs, c, cn, q, x, side, view, t) ==
    [f |-> f,
     ctxs |-> IF ctxs[x][side] = "closing" /\ view = "reject"
              THEN ctxs
              ELSE [ctxs EXCEPT ![x][side] = "closing",
                                ![x].waiting = Append(@, CleanupTask(t))],
     c |-> [c EXCEPT !.pc = IF side = "in" THEN "awaitIn" ELSE "awaitOut"],
     cn |-> cn,
     q |-> IF ctxs[x][side] = "closing" /\ view = "reject"
           THEN Append(q, CleanupTask(t))
           ELSE q]

\* cleanup, lines 119-124, on the output context the field refers to now.
CleanupOutput(f, ctxs, c, cn, q, view, t) ==
    LET x == f.outputAudioContext IN
    IF x = 0
    THEN CleanupReturns(f, ctxs, c, cn, q)
    ELSE IF ctxs[x].out = "closed"
    THEN CleanupReturns([f EXCEPT !.outputAudioContext = 0], ctxs, c, cn, q)
    ELSE AwaitClose(f, ctxs, c, cn, q, x, "out", view, t)

\* cleanup, lines 112-117, on the input context the field refers to now.
CleanupInput(f, ctxs, c, cn, q, view, t) ==
    LET x == f.inputAudioContext IN
    IF x = 0
    THEN CleanupOutput(f, ctxs, c, cn, q, view, t)
    ELSE IF ctxs[x].in = "closed"
    THEN CleanupOutput([f EXCEPT !.inputAudioContext = 0], ctxs, c, cn, q,
                       view, t)
    ELSE AwaitClose(f, ctxs, c, cn, q, x, "in", view, t)

\* The slots a suspended cleanup can be recorded in.
OpenSlots == {t \in CleanupIds : cleanups[t].pc = "free"}

\* What one step leaves behind.
Becomes(res, t) ==
    /\ self' = res.f
    /\ contexts' = res.ctxs
    /\ connects' = res.cn
    /\ microtasks' = res.q
    /\ cleanups' = IF res.c.pc = "returned"
                   THEN [cleanups EXCEPT ![t] = NoCleanup]
                   ELSE [cleanups EXCEPT ![t] = res.c]

\* The instance runs cleanup() with fields f, from the call to the first
\* suspension or the return (lines 85-126), for the connect() call owner
\* that awaits it (0 if none does); cn is the state of the connect() calls
\* and q the queue at the call.
RunCleanup(f, owner, cn, q) ==
    /\ OpenSlots # {}
    /\ \E view \in CloseViews :
          LET t == CHOOSE u \in OpenSlots : \A v \in OpenSlots : u <= v
              res == CleanupInput(
                        [f EXCEPT !.isActive = FALSE, !.isConnecting = FALSE,
                                  !.stream = FALSE],
                        contexts,
                        [NoCleanup EXCEPT !.owner = owner,
                                          !.began = [in |-> f.inputAudioContext,
                                                     out |-> f.outputAudioContext,
                                                     promise |-> f.sessionPromise]],
                        cn, q, view, t)
          IN Becomes(res, t)

\* A fresh instance (lines 66-78): nothing has been called.
InitInstance ==
    /\ gapiInited = FALSE
    /\ initPromise = "null"
    /\ tokenClient = FALSE
    /\ isRefreshingToken = FALSE
    /\ token = 0
    /\ prompts = 0
    /\ callbackOwner = 0
    /\ refreshes = 0
    /\ refreshOutcome = [r \in 1..NCallers |-> "pending"]
    /\ refreshToken = [r \in 1..NCallers |-> 0]
    /\ call = [c \in 1..NCallers |-> NoCall]
    /\ authErrorEvents = 0
    /\ svc = [i \in Inst |-> FreshService]
    /\ activeGlobalService = 0
    /\ globalConnecting = FALSE
    /\ connectAwaits = 0
    /\ tasks = [t \in TaskIds |-> FreeTask]
    /\ streamingAtStart = {}
    /\ stopDuringStart = FALSE
    /\ playing = FALSE
    /\ nextStartTime = 0
    /\ currentTime = 0
    /\ pendingFrame = NoFrame
    /\ scheduled = {}
    /\ speaking = FALSE
    /\ framesSeen = 0
    /\ lastScheduled = NoFrame
    /\ interruptedSince = FALSE
    /\ currentInputTranscription = << >>
    /\ currentOutputTranscription = << >>
    /\ turns = << >>
    /\ resources = {}
    /\ errorCalls = 0
    /\ returned = "none"
    /\ captured = 0
    /\ pendingSend = 0
    /\ sent = << >>
    /\ self = FreshFields
    /\ contexts = [k \in ConnectIds |-> NoContexts]
    /\ connects = [k \in ConnectIds |-> NoConnect]
    /\ cleanups = [t \in CleanupIds |-> NoCleanup]
    /\ channels = [k \in ConnectIds |-> "none"]
    /\ microtasks = << >>
    /\ callerTask = FALSE
    /\ responses = [n \in Attempts |-> 200]
    /\ answers = [n \in Attempts |-> TRUE]
    /\ hasToken = FALSE
    /\ apiRun = NoRun
    /\ fetchRun = NoRun
    /\ sample = 0
    /\ pcm = 0
    /\ encoded = FALSE
    /\ clamped = 0
    /\ converted = FALSE

\* connect() is called on the instance (lines 129-137): the guard, the latch
\* and the first cleanup.  The calls are numbered in the order they are made.
Connect(k) ==
    /\ UNCHANGED <<driveVars, liveVars, playVars, wrapVars, blobVars>>
    /\ microtasks = << >> \/ callerTask
    /\ connects[k].pc = "idle"
    /\ \A j \in ConnectIds : j < k => connects[j].pc # "idle"
    /\ callerTask' = TRUE
    /\ IF self.isConnecting \/ self.isActive
       THEN /\ connects' = [connects EXCEPT ![k].pc = "noop",
                               ![k].overlapped = \E j \in ConnectIds : Acquiring(j)]
            /\ UNCHANGED <<self, contexts, cleanups, microtasks>>
       ELSE RunCleanup([self EXCEPT !.isConnecting = TRUE], k,
                       [connects EXCEPT ![k].pc = "cleanup",
                                        ![k].overlapped =
                                            \E j \in ConnectIds : Acquiring(j)],
                       microtasks)
    /\ UNCHANGED channels

\* connect() resumes after its first cleanup (lines 138-147): it becomes
\* active, creates both contexts and requests the microphone.
ConnectCreatesContexts(k) ==
    /\ UNCHANGED <<driveVars, liveVars, playVars, wrapVars, blobVars>>
    /\ microtasks # << >>
    /\ Head(microtasks) = ConnectTask(k)
    /\ connects[k].pc = "ready"
    /\ microtasks' = Tail(microtasks)
    /\ callerTask' = FALSE
    /\ self' = [self EXCEPT !.isActive = TRUE, !.inputAudioContext = k,
                            !.outputAudioContext = k]
    /\ contexts' = [contexts EXCEPT ![k] = [in |-> "running", out |-> "running",
                                            waiting |-> << >>]]
    /\ connects' = [connects EXCEPT ![k].pc = "gum", ![k].acquired = TRUE]
    /\ UNCHANGED <<cleanups, channels>>

\* getUserMedia settles (lines 147-167, 272-277): granted, the stream and
\* the channel's promise are stored and finally clears the latch; denied,
\* the catch block runs cleanup.
MicrophoneSettles(k, granted) ==
    /\ UNCHANGED <<driveVars, liveVars, playVars, wrapVars, blobVars>>
    /\ ~MicroPendingInstance
    /\ connects[k].pc = "gum"
    /\ callerTask' = FALSE
    /\ IF granted
       THEN /\ self' = [self EXCEPT !.stream = TRUE, !.sessionPromise = k,
                                    !.isConnecting = FALSE]
            /\ connects' = [connects EXCEPT ![k].pc = "done"]
            /\ channels' = [channels EXCEPT ![k] = "open"]
            /\ UNCHANGED <<contexts, cleanups, microtasks>>
       ELSE /\ RunCleanup(self, k, [connects EXCEPT ![k].pc = "catch"],
                          microtasks)
            /\ UNCHANGED channels

\* connect() resumes after the catch block's cleanup: throw, finally (lines
\* 274-277).
ConnectThrows(k) ==
    /\ UNCHANGED <<driveVars, liveVars, playVars, wrapVars, blobVars>>
    /\ microtasks # << >>
    /\ Head(microtasks) = ConnectTask(k)
    /\ connects[k].pc = "caught"
    /\ microtasks' = Tail(microtasks)
    /\ callerTask' = FALSE
    /\ self' = [self EXCEPT !.isConnecting = FALSE]
    /\ connects' = [connects EXCEPT ![k].pc = "failed"]
    /\ UNCHANGED <<contexts, cleanups, channels>>

\* disconnect() is called on the instance (lines 300-302).
Disconnect ==
    /\ UNCHANGED <<driveVars, liveVars, playVars, wrapVars, blobVars>>
    /\ microtasks = << >> \/ callerTask
    /\ callerTask' = TRUE
    /\ RunCleanup(self, 0, connects, microtasks)
    /\ UNCHANGED channels

\* The channel opened by connect() call k reports an error (lines 252-256).
ChannelOnError(k) ==
    /\ UNCHANGED <<driveVars, liveVars, playVars, wrapVars, blobVars>>
    /\ ~MicroPendingInstance
    /\ channels[k] = "open"
    /\ channels' = [channels EXCEPT ![k] = "failed"]
    /\ callerTask' = FALSE
    /\ RunCleanup(self, 0, connects, microtasks)

\* That channel closes (lines 257-260).
ChannelOnClose(k) ==
    /\ UNCHANGED <<driveVars, liveVars, playVars, wrapVars, blobVars>>
    /\ ~MicroPendingInstance
    /\ channels[k] \in {"open", "failed"}
    /\ channels' = [channels EXCEPT ![k] = "closed"]
    /\ callerTask' = FALSE
    /\ RunCleanup(self, 0, connects, microtasks)

\* A context has closed: the close() promises on it settle, and the cleanups
\* that await them are queued to go on, in the order they called close().
AudioContextCloses(k, side) ==
    /\ UNCHANGED <<driveVars, liveVars, playVars, wrapVars, blobVars>>
    /\ ~MicroPendingInstance
    /\ contexts[k][side] = "closing"
    /\ LET woken == SelectSeq(contexts[k].waiting,
                              LAMBDA w : cleanups[w.id].pc =
                                  (IF side = "in" THEN "awaitIn" ELSE "awaitOut"))
           others == SelectSeq(contexts[k].waiting,
                               LAMBDA w : cleanups[w.id].pc #
                                  (IF side = "in" THEN "awaitIn" ELSE "awaitOut"))
       IN /\ contexts' = [contexts EXCEPT ![k][side] = "closed",
                                          ![k].waiting = others]
          /\ microtasks' = microtasks \o woken
    /\ callerTask' = FALSE
    /\ UNCHANGED <<self, connects, cleanups, channels>>

\* A cleanup resumes after `await ...close()`: it nulls the field, whatever
\* the field refers to by now (lines 116, 123), and goes on.
CleanupGoesOn(t) ==
    /\ UNCHANGED <<driveVars, liveVars, playVars, wrapVars, blobVars>>
    /\ microtasks # << >>
    /\ Head(microtasks) = CleanupTask(t)
    /\ cleanups[t].pc \in {"awaitIn", "awaitOut"}
    /\ callerTask' = FALSE
    /\ \E view \in CloseViews :
          Becomes(IF cleanups[t].pc = "awaitIn"
                  THEN CleanupOutput([self EXCEPT !.inputAudioContext = 0],
                                     contexts, cleanups[t], connects,
                                     Tail(microtasks), view, t)
                  ELSE CleanupReturns([self EXCEPT !.outputAudioContext = 0],
                                      contexts, cleanups[t], connects,
                                      Tail(microtasks)),
                  t)
    /\ UNCHANGED channels

NextInstance ==
    \/ \E k \in ConnectIds : Connect(k)
    \/ \E k \in ConnectIds : ConnectCreatesContexts(k)
    \/ \E k \in ConnectIds, granted \in BOOLEAN : MicrophoneSettles(k, granted)
    \/ \E k \in ConnectIds : ConnectThrows(k)
    \/ Disconnect
    \/ \E k \in ConnectIds : ChannelOnError(k)
    \/ \E k \in ConnectIds : ChannelOnClose(k)
    \/ \E k \in ConnectIds, side \in {"in", "out"} : AudioContextCloses(k, side)
    \/ \E t \in CleanupIds : CleanupGoesOn(t)

SpecInstance == InitInstance /\ [][NextInstance]_vars

\* C33: the isConnecting latch holds for the whole of a connect call: a
\* connect() made on the instance while an earlier connect() has not finished
\* its acquisition returns without creating audio contexts or requesting the
\* microphone.
C33_SecondConnectIsNoOp ==
    \A k \in ConnectIds : connects[k].overlapped => ~connects[k].acquired

\* C35: each cleanup releases only what existed when it began: the context
\* it closes or nulls, and the session promise it nulls, are those the fields
\* held at its start, never those a later connect() has created, also when
\* two cleanups overlap.
C35_CleanupReleasesOnlyWhatItFound ==
    [][\A t \in CleanupIds :
          (/\ microtasks # << >>
           /\ Head(microtasks) = CleanupTask(t)
           /\ cleanups'[t] # cleanups[t])
          => /\ self'.inputAudioContext # self.inputAudioContext
                   => self.inputAudioContext = cleanups[t].began.in
             /\ self'.outputAudioContext # self.outputAudioContext
                   => self.outputAudioContext = cleanups[t].began.out
             /\ self'.sessionPromise # self.sessionPromise
                   => self.sessionPromise = cleanups[t].began.promise
             /\ \A k \in ConnectIds :
                   /\ contexts'[k].in # contexts[k].in => k = cleanups[t].began.in
                   /\ contexts'[k].out # contexts[k].out
                         => k = cleanups[t].began.out]_vars

=============================================================================
